---------------------------- MODULE Spec2Model ----------------------------
(***************************************************************************)
(* Model of the template editor's client-side state core:                  *)
(*   - the block graph store (src/src/stores/editorStore.ts) wrapped in    *)
(*     the zundo `temporal` middleware (undo/redo history),                *)
(*   - the host message service and useDirtySync                           *)
(*     (src/src/services/messageService.ts),                               *)
(*   - the per-block interaction controller                                *)
(*     (src/src/hooks/useBlockInteractions.ts) and the Block key handler.  *)
(*                                                                         *)
(* Numbers: block geometry is in integer template pixels.  scaleFactor is  *)
(* kept in tenths (10 = 1.0), so that the 0.1 zoom step and the division   *)
(* of a pointer delta by the scale are exact rational arithmetic.          *)
(***************************************************************************)
EXTENDS Integers, Sequences, FiniteSets, TLC

VARIABLES
    template,         \* EditorState.template (NullTemplate when null)
    selectedBlockId,  \* EditorState.selectedBlockId ("null" when null)
    isDirty,          \* EditorState.isDirty
    isLoaded,         \* EditorState.isLoaded
    scaleFactor,      \* EditorState.scaleFactor, in tenths
    pastStates,       \* temporal store: snapshots before each set call
    futureStates,     \* temporal store: snapshots undone
    isDirtyNotified,  \* MessageService.isDirtyNotified
    dirtySent,        \* 'editor-dirty' messages posted since the last load/save
    mutatedSinceReset,\* a dirtying mutation happened since the last load/save
    lastReset,        \* which event was the last load/save
    lastCall,         \* the store call, undo or redo that ran last, with its arguments
    beforeCall,       \* {template, selectedBlockId} right before lastCall
    afterOp,          \* {template, selectedBlockId} right after the last store operation
    ctl,              \* per block id: the useBlockInteractions state
    sent,             \* updateBlock calls issued by handleDrag in the last event
    event,            \* the last user-interface event delivered to Canvas or a Block
    draggingBlockId,  \* Canvas state draggingBlockId ("null" when null)
    listeners,        \* per mounted Block: sets of window listeners attached
    userSelect,       \* document.body.style.userSelect
    imageUrl,         \* per mounted Block: the preview URL displayed ("" when none)
    pending,          \* preview images still loading
    lastFetch,        \* per mounted Block: the URL of the preview fetch started last
    calls             \* set calls made so far

storeVars == <<template, selectedBlockId, isDirty, isLoaded, scaleFactor>>
temporalVars == <<pastStates, futureStates>>
messageVars == <<isDirtyNotified, dirtySent, mutatedSinceReset, lastReset>>
observerVars == <<lastCall, beforeCall, afterOp>>
dragVars == <<ctl, sent>>
effectVars == <<draggingBlockId, listeners, userSelect>>
previewVars == <<imageUrl, pending, lastFetch>>
viewVars == <<event, effectVars, previewVars>>
vars == <<storeVars, temporalVars, messageVars, observerVars, dragVars, viewVars, calls>>

---------------------------------------------------------------------------
(* Bounds of the model *)

\* set calls (store operations, loads, zoom steps) offered in one run
MaxCalls == 3
\* addBlock / duplicateBlock are offered while the template holds fewer blocks
MaxBlocks == 3
\* the canvas of the interaction specification is MinSize + CanvasSlack pixels wide and high
CanvasSlack == 1
\* structural operations made in one run of the history specification
HistoryCalls == 52
\* the payloads of the insertion specification hold up to MaxExisting blocks
MaxExisting == 5
\* reorderBlocks calls offered after the load of the load specification
MaxReorders == 1

(* Program constants *)

\* zundo option `limit`
Limit == 50
\* setScaleFactor clamp, in tenths
MinScale == 1
MaxScale == 30
\* scaleFactor of the initial state (1.0)
InitialScale == 10
\* duplicateBlock offset
DuplicateOffset == 20
\* useBlockInteractions: minSize
MinSize == 20
\* useSnapGuides: snapThreshold
SnapThreshold == 10

NullId == "null"
NullTemplate == [isNull |-> TRUE]

Min(a, b) == IF a < b THEN a ELSE b
Max(a, b) == IF a > b THEN a ELSE b

---------------------------------------------------------------------------
(* types/block.ts and the helpers of editorStore.ts *)

BlockTypes == {"Text", "Rectangle", "Ellipse", "Picture", "WebPicture", "Video"}

\* The attributes of Block the model keeps: identity, geometry, one text
\* attribute and one shape attribute.
BlockKeys == {"id", "name", "blockType", "x", "y", "width", "height", "text", "rectColor"}

createDefaultBlock(type, name, id) ==
    [id |-> id,
     name |-> name,
     blockType |-> type,
     x |-> 100,
     y |-> 100,
     width |-> 300,
     height |-> IF type = "Text" THEN 100 ELSE 200,
     text |-> IF type = "Text" THEN "New Text Block" ELSE "",
     rectColor |-> IF type = "Rectangle" THEN "2cb466" ELSE "FFFFFF"]

\* key.charAt(0).toLowerCase() + key.slice(1), on the wire keys of the model
toCamelCase(key) ==
    CASE key = "Id" -> "id"
      [] key = "Name" -> "name"
      [] key = "BlockType" -> "blockType"
      [] key = "X" -> "x"
      [] key = "Y" -> "y"
      [] key = "Width" -> "width"
      [] key = "Height" -> "height"
      [] key = "Text" -> "text"
      [] key = "RectColor" -> "rectColor"
      [] OTHER -> key

\* key.charAt(0).toUpperCase() + key.slice(1), on the block keys of the model
toPascalCase(key) ==
    CASE key = "id" -> "Id"
      [] key = "name" -> "Name"
      [] key = "blockType" -> "BlockType"
      [] key = "x" -> "X"
      [] key = "y" -> "Y"
      [] key = "width" -> "Width"
      [] key = "height" -> "Height"
      [] key = "text" -> "Text"
      [] key = "rectColor" -> "RectColor"
      [] OTHER -> key

BlockIdsOf(t) ==
    IF t = NullTemplate THEN {} ELSE {t.blocks[i].id : i \in DOMAIN t.blocks}

\* every block id held by the present state or by a history snapshot
UsedIds ==
    BlockIdsOf(template)
        \cup UNION {BlockIdsOf(pastStates[i].template) : i \in DOMAIN pastStates}
        \cup UNION {BlockIdsOf(futureStates[i].template) : i \in DOMAIN futureStates}

RECURSIVE FreshFrom(_, _)
FreshFrom(used, n) ==
    IF ("block-" \o ToString(n)) \in used THEN FreshFrom(used, n + 1)
    ELSE "block-" \o ToString(n)

\* `block-${Date.now()}-${random}`: an id no block of the session carries
FreshId(used) == FreshFrom(used, 1)

\* Object.assign(target, updates) / { ...target, ...updates }
Assign(target, updates) ==
    [k \in (DOMAIN target) \cup (DOMAIN updates) |->
        IF k \in DOMAIN updates THEN updates[k] ELSE target[k]]

\* mutant of normalizeBlock: the defaults are spread over the record's fields
normalizeBlockDefaultsLast(apiBlock, index, freshId) ==
    LET block == [k \in {toCamelCase(key) : key \in DOMAIN apiBlock} |->
                     apiBlock[CHOOSE key \in DOMAIN apiBlock : toCamelCase(key) = k]]
        withId == IF "id" \in DOMAIN block /\ block.id # ""
                  THEN block
                  ELSE Assign(block, [id |-> freshId])
        type == IF "blockType" \in DOMAIN block /\ block.blockType # ""
                THEN block.blockType ELSE "Rectangle"
        name == IF "name" \in DOMAIN block /\ block.name # ""
                THEN block.name ELSE "Block " \o ToString(index + 1)
        defaults == createDefaultBlock(type, name, withId.id)
    IN  Assign(withId, defaults)

normalizeBlock(apiBlock, index, freshId) ==
    LET block == [k \in {toCamelCase(key) : key \in DOMAIN apiBlock} |->
                     apiBlock[CHOOSE key \in DOMAIN apiBlock : toCamelCase(key) = k]]
        withId == IF "id" \in DOMAIN block /\ block.id # ""
                  THEN block
                  ELSE Assign(block, [id |-> freshId])
        type == IF "blockType" \in DOMAIN block /\ block.blockType # ""
                THEN block.blockType ELSE "Rectangle"
        name == IF "name" \in DOMAIN block /\ block.name # ""
                THEN block.name ELSE "Block " \o ToString(index + 1)
        defaults == createDefaultBlock(type, name, freshId)
    IN  Assign(defaults, withId)

NamePrefix(baseType) ==
    CASE baseType = "Text" -> "Text"
      [] baseType = "Rectangle" -> "Rectangle"
      [] baseType = "Ellipse" -> "Ellipse"
      [] baseType = "Picture" -> "Picture"
      [] baseType = "WebPicture" -> "WebPicture"
      [] OTHER -> "Video"

BlockNames(blocks) == {blocks[i].name : i \in DOMAIN blocks}

RECURSIVE NameFrom(_, _, _)
NameFrom(existingNames, prefix, counter) ==
    IF (prefix \o ToString(counter)) \in existingNames
    THEN NameFrom(existingNames, prefix, counter + 1)
    ELSE prefix \o ToString(counter)

generateBlockName(blocks, baseType) ==
    NameFrom(BlockNames(blocks), NamePrefix(baseType), 1)

\* blocks.findIndex(b => b.id === blockId), 1-based; 0 when absent
FindIndex(blocks, blockId) ==
    IF \E i \in DOMAIN blocks : blocks[i].id = blockId
    THEN CHOOSE i \in DOMAIN blocks :
            /\ blocks[i].id = blockId
            /\ \A j \in DOMAIN blocks : blocks[j].id = blockId => i <= j
    ELSE 0

\* blocks.splice(index, 0, item) with a 1-based index
InsertAt(s, index, item) ==
    SubSeq(s, 1, index - 1) \o <<item>> \o SubSeq(s, index, Len(s))

\* blocks.splice(index, 1) with a 1-based index
RemoveAt(s, index) ==
    SubSeq(s, 1, index - 1) \o SubSeq(s, index + 1, Len(s))

---------------------------------------------------------------------------
(* The store operations of editorStore.ts, as functions of the store state *)

Store ==
    [template |-> template,
     selectedBlockId |-> selectedBlockId,
     isDirty |-> isDirty,
     isLoaded |-> isLoaded,
     scaleFactor |-> scaleFactor]

RECURSIVE NormalizeAll(_, _, _)
\* (apiTemplate.blocks || []).map((b, i) => normalizeBlock(b, i)); `index` is 1-based
NormalizeAll(apiBlocks, index, used) ==
    IF index > Len(apiBlocks) THEN <<>>
    ELSE LET b == normalizeBlock(apiBlocks[index], index - 1, FreshId(used))
         IN  <<b>> \o NormalizeAll(apiBlocks, index + 1, used \cup {b.id})

loadTemplate(s, payload, used) ==
    [s EXCEPT
        !.template = [name |-> payload.template.name,
                      backgroundID |-> payload.template.backgroundID,
                      width |-> payload.zone.graphicsWidth,
                      height |-> payload.zone.graphicsHeight,
                      blocks |-> NormalizeAll(payload.template.blocks, 1, used)],
        !.isLoaded = TRUE,
        !.isDirty = FALSE,
        !.selectedBlockId = NullId]

selectBlock(s, blockId) == [s EXCEPT !.selectedBlockId = blockId]

\* mutant of updateBlock: the updates land on the first block, whatever the id
updateBlockFirst(s, blockId, updates) ==
    IF s.template = NullTemplate THEN s
    ELSE IF FindIndex(s.template.blocks, blockId) = 0 THEN s
    ELSE [s EXCEPT !.template.blocks[1] = Assign(@, updates), !.isDirty = TRUE]

updateBlock(s, blockId, updates) ==
    IF s.template = NullTemplate THEN s
    ELSE LET blockIndex == FindIndex(s.template.blocks, blockId)
         IN  IF blockIndex = 0 THEN s
             ELSE [s EXCEPT !.template.blocks[blockIndex] = Assign(@, updates),
                            !.isDirty = TRUE]

\* mutant of addBlock: the offset grows with the block count without wrapping
addBlockNoWrap(s, type, name, freshId) ==
    IF s.template = NullTemplate THEN s
    ELSE LET blocks == s.template.blocks
             blockName == IF name # "" THEN name ELSE generateBlockName(blocks, type)
             newBlock == createDefaultBlock(type, blockName, freshId)
             offset == Len(blocks) * 20
             placed == IF Len(blocks) > 0
                       THEN [newBlock EXCEPT !.x = 50 + offset, !.y = 50 + offset]
                       ELSE newBlock
         IN  [s EXCEPT !.template.blocks = <<placed>> \o blocks,
                       !.selectedBlockId = placed.id,
                       !.isDirty = TRUE]

\* `name` is "" when the optional argument is omitted
addBlock(s, type, name, freshId) ==
    IF s.template = NullTemplate THEN s
    ELSE LET blocks == s.template.blocks
             blockName == IF name # "" THEN name ELSE generateBlockName(blocks, type)
             newBlock == createDefaultBlock(type, blockName, freshId)
             offset == (Len(blocks) * 20) % 100
             placed == IF Len(blocks) > 0
                       THEN [newBlock EXCEPT !.x = 50 + offset, !.y = 50 + offset]
                       ELSE newBlock
         IN  [s EXCEPT !.template.blocks = <<placed>> \o blocks,
                       !.selectedBlockId = placed.id,
                       !.isDirty = TRUE]

deleteBlock(s, blockId) ==
    IF s.template = NullTemplate THEN s
    ELSE LET blockIndex == FindIndex(s.template.blocks, blockId)
         IN  IF blockIndex = 0 THEN s
             ELSE [s EXCEPT !.template.blocks = RemoveAt(@, blockIndex),
                            !.selectedBlockId = IF @ = blockId THEN NullId ELSE @,
                            !.isDirty = TRUE]

\* mutant of duplicateBlock: the clone is spliced in behind the source
duplicateBlockAfter(s, blockId, freshId) ==
    IF s.template = NullTemplate THEN s
    ELSE LET blocks == s.template.blocks
             sourceIndex == FindIndex(blocks, blockId)
         IN  IF sourceIndex = 0 THEN s
             ELSE LET sourceBlock == blocks[sourceIndex]
                      newBlock == [sourceBlock EXCEPT
                                      !.id = freshId,
                                      !.name = generateBlockName(blocks, sourceBlock.blockType),
                                      !.x = sourceBlock.x + DuplicateOffset,
                                      !.y = sourceBlock.y + DuplicateOffset]
                  IN  [s EXCEPT !.template.blocks = InsertAt(@, sourceIndex + 1, newBlock),
                                !.selectedBlockId = newBlock.id,
                                !.isDirty = TRUE]

duplicateBlock(s, blockId, freshId) ==
    IF s.template = NullTemplate THEN s
    ELSE LET blocks == s.template.blocks
             sourceIndex == FindIndex(blocks, blockId)
         IN  IF sourceIndex = 0 THEN s
             ELSE LET sourceBlock == blocks[sourceIndex]
                      newBlock == [sourceBlock EXCEPT
                                      !.id = freshId,
                                      !.name = generateBlockName(blocks, sourceBlock.blockType),
                                      !.x = sourceBlock.x + DuplicateOffset,
                                      !.y = sourceBlock.y + DuplicateOffset]
                  IN  [s EXCEPT !.template.blocks = InsertAt(@, sourceIndex, newBlock),
                                !.selectedBlockId = newBlock.id,
                                !.isDirty = TRUE]

\* fromIndex and toIndex are the 0-based indices of the code
reorderBlocksBefore(s, fromIndex, toIndex) ==
    IF s.template = NullTemplate THEN s
    ELSE IF fromIndex = toIndex THEN s
    ELSE IF fromIndex < 0 \/ fromIndex >= Len(s.template.blocks) THEN s
    ELSE IF toIndex < 0 \/ toIndex >= Len(s.template.blocks) THEN s
    ELSE LET removed == s.template.blocks[fromIndex + 1]
             rest == RemoveAt(s.template.blocks, fromIndex + 1)
             at == IF toIndex > fromIndex THEN toIndex ELSE toIndex + 1
         IN  [s EXCEPT !.template.blocks = InsertAt(rest, at, removed), !.isDirty = TRUE]

reorderBlocks(s, fromIndex, toIndex) ==
    IF s.template = NullTemplate THEN s
    ELSE IF fromIndex = toIndex THEN s
    ELSE IF fromIndex < 0 \/ fromIndex >= Len(s.template.blocks) THEN s
    ELSE IF toIndex < 0 \/ toIndex >= Len(s.template.blocks) THEN s
    ELSE LET removed == s.template.blocks[fromIndex + 1]
             rest == RemoveAt(s.template.blocks, fromIndex + 1)
         IN  [s EXCEPT !.template.blocks = InsertAt(rest, toIndex + 1, removed),
                       !.isDirty = TRUE]

setBackground(s, backgroundId) ==
    IF s.template = NullTemplate THEN s
    ELSE [s EXCEPT !.template.backgroundID = backgroundId, !.isDirty = TRUE]

setTemplateName(s, name) ==
    IF s.template = NullTemplate THEN s
    ELSE [s EXCEPT !.template.name = name, !.isDirty = TRUE]

\* mutant of setScaleFactor: the upper end of the clamp is missing
setScaleFactorNoMax(s, factor) ==
    [s EXCEPT !.scaleFactor = Max(MinScale, factor)]

\* Math.max(0.1, Math.min(3, factor)), in tenths
setScaleFactor(s, factor) ==
    [s EXCEPT !.scaleFactor = Max(MinScale, Min(MaxScale, factor))]

markDirty(s) == [s EXCEPT !.isDirty = TRUE]

\* mutant of blockToApiFormat: the internal id is not skipped
blockToApiFormatWithId(block) ==
    [key \in {toPascalCase(k) : k \in DOMAIN block} |->
        block[CHOOSE k \in DOMAIN block : toPascalCase(k) = key]]

blockToApiFormat(block) ==
    [key \in {toPascalCase(k) : k \in (DOMAIN block) \ {"id"}} |->
        block[CHOOSE k \in (DOMAIN block) \ {"id"} : toPascalCase(k) = key]]

\* what getTemplateForSave returns when no template is loaded
NullSave == [isNull |-> TRUE]

getTemplateForSave(s) ==
    IF s.template = NullTemplate THEN NullSave
    ELSE [Name |-> s.template.name,
          BackgroundID |-> s.template.backgroundID,
          Blocks |-> [i \in DOMAIN s.template.blocks |->
                        blockToApiFormat(s.template.blocks[i])]]

---------------------------------------------------------------------------
(* zundo temporal middleware as configured in editorStore.ts:              *)
(* limit 50, partialize {template, selectedBlockId}, no equality option,   *)
(* so every set call stores the state it replaces.                         *)

\* mutant of partialize: the selection is left out of the snapshot
partializeTemplateOnly(s) == [template |-> s.template, selectedBlockId |-> NullId]

partialize(s) == [template |-> s.template, selectedBlockId |-> s.selectedBlockId]

\* mutant of _handleSet: the oldest snapshot is never dropped
handleSetUnbounded(past, pastState) == Append(past, pastState)

\* _handleSet: drop the oldest snapshot at the limit, append, clear the future
handleSet(past, pastState) ==
    Append(IF Len(past) >= Limit THEN Tail(past) ELSE past, pastState)

\* the snapshot undo applies: the most recent past state
undoTarget(past) == past[Len(past)]

\* the snapshot redo applies: the most recently undone state
redoTarget(future) == future[Len(future)]

---------------------------------------------------------------------------
(* MessageService and useDirtySync of messageService.ts.  A message state  *)
(* is the latch and the count of 'editor-dirty' messages posted.           *)

Messages == [isDirtyNotified |-> isDirtyNotified, posted |-> dirtySent]

sendDirty(m) ==
    IF m.isDirtyNotified THEN m
    ELSE [isDirtyNotified |-> TRUE, posted |-> m.posted + 1]

\* called on every render of Editor with the store's isDirty
useDirtySync(dirty, m) == IF dirty THEN sendDirty(m) ELSE m

---------------------------------------------------------------------------
(* Inputs *)

\* editor-load payload of the host: one full Text record, one partial record without id
HostPayload ==
    [template |-> [name |-> "Lobby", backgroundID |-> "7",
                   blocks |-> << [Id |-> "b1", Name |-> "Text1", BlockType |-> "Text",
                                  X |-> 10, Y |-> 10, Width |-> 200, Height |-> 50,
                                  Text |-> "Welcome"],
                                 [Name |-> "Rectangle1", BlockType |-> "Rectangle"] >>],
     zone |-> [graphicsWidth |-> 1920, graphicsHeight |-> 1080]]

\* the demo's mock payload
MockPayload ==
    [template |-> [name |-> "Mock", backgroundID |-> "",
                   blocks |-> << [Id |-> "m1", Name |-> "Title", BlockType |-> "Text",
                                  X |-> 100, Y |-> 50, Width |-> 400, Height |-> 80] >>],
     zone |-> [graphicsWidth |-> 1920, graphicsHeight |-> 1080]]

\* a payload the content browser fetched: a template without blocks
BrowserPayload ==
    [template |-> [name |-> "Empty", backgroundID |-> "-1", blocks |-> << >>],
     zone |-> [graphicsWidth |-> 1280, graphicsHeight |-> 720]]

UpdateInputs == {[x |-> 40, y |-> 60], [rectColor |-> "FF0000", name |-> "Text2"]}
\* addBlock arguments <<type, name>>; name "" stands for the omitted argument
AddInputs == {<<"Text", "">>, <<"Rectangle", "">>, <<"Text", "Text1">>}
BackgroundInputs == {"9"}
NameInputs == {"Renamed"}
\* calculateFitScale results and pinch results handed to setScaleFactor, in tenths
ScaleInputs == {-2, 4, 35}

\* ids a caller may pass: the ids of the template and one id no block has
IdInputs == BlockIdsOf(template) \cup {"missing"}

BlockCount == IF template = NullTemplate THEN 0 ELSE Len(template.blocks)

StoreOps == {"selectBlock", "updateBlock", "addBlock", "deleteBlock", "duplicateBlock",
             "reorderBlocks", "setBackground", "setTemplateName"}

---------------------------------------------------------------------------
(* Actions of the store specification *)

CanPush == calls < MaxCalls

\* no user-interface event was delivered yet
NoEvent == [type |-> "none", id |-> NullId, mode |-> "none"]

\* the view layer right after the Blocks `ids` were mounted: no drag, no
\* window listener, no preview image
ViewMounted(ids) ==
    /\ event = NoEvent
    /\ draggingBlockId = NullId
    /\ listeners = [id \in ids |-> 0]
    /\ userSelect = ""
    /\ imageUrl = [id \in ids |-> ""]
    /\ pending = {}
    /\ lastFetch = [id \in ids |-> ""]

\* what an observer of the store sees of the document: template and selection
Document(s) == [template |-> s.template, selectedBlockId |-> s.selectedBlockId]

\* The set function temporal hands to the store creator: run the recipe, then
\* store the partialized state it replaced.
TemporalSet(next) ==
    /\ template' = next.template
    /\ selectedBlockId' = next.selectedBlockId
    /\ isDirty' = next.isDirty
    /\ isLoaded' = next.isLoaded
    /\ scaleFactor' = next.scaleFactor
    /\ pastStates' = handleSet(pastStates, partialize(Store))
    /\ futureStates' = << >>
    /\ calls' = calls + 1

\* Editor re-renders after a store change and calls useDirtySync
EditorRender ==
    LET m == useDirtySync(isDirty', Messages)
    IN  /\ isDirtyNotified' = m.isDirtyNotified
        /\ dirtySent' = m.posted

\* a store operation called by the UI: set, re-render; `dirties` tells whether
\* the recipe reached its `state.isDirty = true`
StoreCall(op, args, next, dirties) ==
    /\ CanPush
    /\ TemporalSet(next)
    /\ EditorRender
    /\ mutatedSinceReset' = (mutatedSinceReset \/ dirties)
    /\ lastReset' = lastReset
    /\ lastCall' = [op |-> op, args |-> args]
    /\ beforeCall' = Document(Store)
    /\ afterOp' = Document(next)
    /\ UNCHANGED <<dragVars, viewVars>>

Present(id) == template # NullTemplate /\ FindIndex(template.blocks, id) # 0

SelectBlock(id) ==
    StoreCall("selectBlock", <<id>>, selectBlock(Store, id), FALSE)

UpdateBlock(id, updates) ==
    StoreCall("updateBlock", <<id, updates>>, updateBlock(Store, id, updates), Present(id))

AddBlock(type, name) ==
    /\ BlockCount < MaxBlocks
    /\ StoreCall("addBlock", <<type, name>>, addBlock(Store, type, name, FreshId(UsedIds)),
                 template # NullTemplate)

DeleteBlock(id) ==
    StoreCall("deleteBlock", <<id>>, deleteBlock(Store, id), Present(id))

DuplicateBlock(id) ==
    /\ BlockCount < MaxBlocks
    /\ StoreCall("duplicateBlock", <<id>>, duplicateBlock(Store, id, FreshId(UsedIds)),
                 Present(id))

ReorderBlocks(fromIndex, toIndex) ==
    StoreCall("reorderBlocks", <<fromIndex, toIndex>>,
              reorderBlocks(Store, fromIndex, toIndex),
              reorderBlocks(Store, fromIndex, toIndex) # Store)

SetBackground(backgroundId) ==
    StoreCall("setBackground", <<backgroundId>>, setBackground(Store, backgroundId),
              template # NullTemplate)

SetTemplateName(name) ==
    StoreCall("setTemplateName", <<name>>, setTemplateName(Store, name),
              template # NullTemplate)

MarkDirty == StoreCall("markDirty", << >>, markDirty(Store), TRUE)

ZoomOps == {"zoomIn", "zoomOut", "setScaleFactor"}

\* the last call was a store operation, or a zoom step in a run of zoom steps
\* that started right after one
OnlyZoomSinceOp ==
    \/ lastCall.op \in StoreOps
    \/ (lastCall.op \in ZoomOps /\ lastCall.args[2])

\* every zoom path ends in setScaleFactor
ZoomCall(op, factor) ==
    /\ CanPush
    /\ TemporalSet(setScaleFactor(Store, factor))
    /\ EditorRender
    /\ lastCall' = [op |-> op, args |-> <<factor, OnlyZoomSinceOp>>]
    /\ UNCHANGED <<mutatedSinceReset, lastReset, beforeCall, afterOp, dragVars, viewVars>>

\* Canvas.handleZoomIn / handleZoomOut / wheel with a modifier key
ZoomIn == ZoomCall("zoomIn", Min(scaleFactor + 1, MaxScale))
ZoomOut == ZoomCall("zoomOut", Max(scaleFactor - 1, MinScale))
\* fit-to-window and pinch-zoom: a computed factor
SetScaleFactor(factor) == ZoomCall("setScaleFactor", factor)

\* a load: loadTemplate through the temporal set, then the caller's own steps
LoadCall(op, payload, notified) ==
    /\ CanPush
    /\ TemporalSet(loadTemplate(Store, payload, UsedIds))
    /\ isDirtyNotified' = notified
    /\ dirtySent' = 0
    /\ mutatedSinceReset' = FALSE
    /\ lastReset' = op
    /\ lastCall' = [op |-> op, args |-> <<payload>>]
    /\ UNCHANGED <<beforeCall, afterOp, dragVars, viewVars>>

\* MessageService.handleEditorLoad
HostEditorLoad == LoadCall("editor-load", HostPayload, FALSE)

\* App: the mock payload is loaded while nothing is loaded yet
MockLoad ==
    /\ ~isLoaded
    /\ LoadCall("mock-load", MockPayload, isDirtyNotified)

\* ContentBrowser.handleItemClick
BrowserLoad == LoadCall("browser-load", BrowserPayload, isDirtyNotified)

\* MessageService.handleEditorRequest: answers with 'editor-save' when a
\* template is loaded; no store or service field is written
HostEditorRequest ==
    /\ dirtySent' = IF template # NullTemplate THEN 0 ELSE dirtySent
    /\ mutatedSinceReset' = IF template # NullTemplate THEN FALSE ELSE mutatedSinceReset
    /\ lastReset' = IF template # NullTemplate THEN "editor-save" ELSE lastReset
    /\ UNCHANGED <<storeVars, temporalVars, isDirtyNotified, observerVars, dragVars, viewVars, calls>>

\* temporal.undo(): apply the last past state, keep the replaced one for redo
Undo ==
    /\ pastStates # << >>
    /\ template' = undoTarget(pastStates).template
    /\ selectedBlockId' = undoTarget(pastStates).selectedBlockId
    /\ pastStates' = SubSeq(pastStates, 1, Len(pastStates) - 1)
    /\ futureStates' = Append(futureStates, partialize(Store))
    /\ UNCHANGED <<isDirty, isLoaded, scaleFactor, mutatedSinceReset, lastReset,
                   beforeCall, afterOp, dragVars, viewVars, calls>>
    /\ EditorRender
    /\ lastCall' = [op |-> "undo", args |-> <<lastCall.op \in StoreOps>>]

\* temporal.redo()
Redo ==
    /\ futureStates # << >>
    /\ template' = redoTarget(futureStates).template
    /\ selectedBlockId' = redoTarget(futureStates).selectedBlockId
    /\ pastStates' = Append(pastStates, partialize(Store))
    /\ futureStates' = SubSeq(futureStates, 1, Len(futureStates) - 1)
    /\ UNCHANGED <<isDirty, isLoaded, scaleFactor, mutatedSinceReset, lastReset,
                   beforeCall, afterOp, dragVars, viewVars, calls>>
    /\ EditorRender
    /\ lastCall' = [op |-> "redo", args |-> <<lastCall.op = "undo" /\ lastCall.args[1]>>]

\* Editor renders again for a reason of its own
Render ==
    /\ isDirtyNotified' = useDirtySync(isDirty, Messages).isDirtyNotified
    /\ dirtySent' = useDirtySync(isDirty, Messages).posted
    /\ UNCHANGED <<storeVars, temporalVars, mutatedSinceReset, lastReset,
                   observerVars, dragVars, viewVars, calls>>

Init ==
    /\ template = NullTemplate
    /\ selectedBlockId = NullId
    /\ isDirty = FALSE
    /\ isLoaded = FALSE
    /\ scaleFactor = InitialScale
    /\ pastStates = << >>
    /\ futureStates = << >>
    /\ isDirtyNotified = FALSE
    /\ dirtySent = 0
    /\ mutatedSinceReset = FALSE
    /\ lastReset = "none"
    /\ lastCall = [op |-> "create", args |-> << >>]
    /\ beforeCall = Document(Store)
    /\ afterOp = Document(Store)
    /\ ctl = << >>
    /\ sent = {}
    /\ ViewMounted({})
    /\ calls = 0

Next ==
    \/ HostEditorLoad
    \/ MockLoad
    \/ BrowserLoad
    \/ HostEditorRequest
    \/ \E id \in IdInputs \cup {NullId} : SelectBlock(id)
    \/ \E id \in IdInputs, updates \in UpdateInputs : UpdateBlock(id, updates)
    \/ \E input \in AddInputs : AddBlock(input[1], input[2])
    \/ \E id \in IdInputs : DeleteBlock(id)
    \/ \E id \in IdInputs : DuplicateBlock(id)
    \/ \E fromIndex \in 0 .. BlockCount, toIndex \in 0 .. BlockCount :
          ReorderBlocks(fromIndex, toIndex)
    \/ \E backgroundId \in BackgroundInputs : SetBackground(backgroundId)
    \/ \E name \in NameInputs : SetTemplateName(name)
    \/ MarkDirty
    \/ ZoomIn
    \/ ZoomOut
    \/ \E factor \in ScaleInputs : SetScaleFactor(factor)
    \/ Undo
    \/ Redo
    \/ Render

Spec == Init /\ [][Next]_vars

---------------------------------------------------------------------------
(* Properties of the store specification *)

PresentDocument == [template |-> template, selectedBlockId |-> selectedBlockId]
NextDocument == [template |-> template', selectedBlockId |-> selectedBlockId']

\* this step is a set call of the named handler
IsCall(op) == calls' = calls + 1 /\ lastCall'.op = op

\* C1: on a loaded template, an undo issued right after a store operation
\* (updateBlock, addBlock, deleteBlock, duplicateBlock, reorderBlocks,
\* setBackground, setTemplateName, selectBlock) restores exactly the template
\* and selectedBlockId held before the operation, and a redo issued right after
\* that undo restores exactly what the operation had produced.
C1_UndoRedoExact ==
    [][ /\ (/\ lastCall.op \in StoreOps
            /\ beforeCall.template # NullTemplate
            /\ lastCall'.op = "undo")
           => NextDocument = beforeCall
        /\ (/\ lastCall.op = "undo"
            /\ lastCall.args[1]
            /\ beforeCall.template # NullTemplate
            /\ lastCall'.op = "redo")
           => NextDocument = afterOp ]_vars

\* C1 witness: a duplicateBlock was undone and redone, and the document is
\* again the one the operation produced, which differs from the one before it
C1_Witness ==
    /\ lastCall.op = "redo"
    /\ lastCall.args[1]
    /\ beforeCall.template # NullTemplate
    /\ PresentDocument = afterOp
    /\ beforeCall.template.blocks # << >>
    /\ Len(afterOp.template.blocks) = Len(beforeCall.template.blocks) + 1
    /\ afterOp.selectedBlockId # beforeCall.selectedBlockId
    /\ afterOp.template.blocks[1] = beforeCall.template.blocks[1]

\* C5: updateBlock(id, partial) on an id of the loaded template overlays
\* exactly the given attributes on that block and keeps its other attributes;
\* every other block, the order, the selection, the template's own fields and
\* scaleFactor stay as they were, and isDirty is true afterwards.
C5_UpdateBlockFrame ==
    [][ (IsCall("updateBlock") /\ Present(lastCall'.args[1])) =>
          LET updates == lastCall'.args[2]
              i == FindIndex(template.blocks, lastCall'.args[1])
              old == template.blocks[i]
              new == template'.blocks[i]
          IN  /\ Len(template'.blocks) = Len(template.blocks)
              /\ \A j \in DOMAIN template.blocks :
                    j # i => template'.blocks[j] = template.blocks[j]
              /\ DOMAIN new = (DOMAIN old) \cup (DOMAIN updates)
              /\ \A k \in DOMAIN updates : new[k] = updates[k]
              /\ \A k \in (DOMAIN old) \ (DOMAIN updates) : new[k] = old[k]
              /\ template'.name = template.name
              /\ template'.backgroundID = template.backgroundID
              /\ template'.width = template.width
              /\ template'.height = template.height
              /\ selectedBlockId' = selectedBlockId
              /\ scaleFactor' = scaleFactor
              /\ isLoaded' = isLoaded
              /\ isDirty' ]_vars

\* C5 witness: updateBlock has just moved the second of two blocks while the
\* first one is selected
C5_Witness ==
    /\ lastCall.op = "updateBlock"
    /\ template # NullTemplate
    /\ Len(template.blocks) >= 2
    /\ FindIndex(template.blocks, lastCall.args[1]) = 2
    /\ selectedBlockId = template.blocks[1].id
    /\ template.blocks[2].x = 40
    /\ template.blocks[2].width = 300
    /\ isDirty

\* C6 (as claimed): after addBlock on a loaded template, with the name
\* supplied or omitted, the new block's name differs from the name of every
\* block the template held before the call.
C6_AddBlockNameDistinct ==
    [][ (IsCall("addBlock") /\ template # NullTemplate) =>
          template'.blocks[1].name \notin BlockNames(template.blocks) ]_vars

C8_ExactlyOneDirtyMessage ==
    (lastReset # "none" /\ mutatedSinceReset) => dirtySent = 1

\* C9 (as claimed): after a load by any caller of loadTemplate, or a save, the
\* first later dirtying mutation posts one 'editor-dirty' message.
C9_RearmedByLoadAndSave ==
    [][ (/\ lastReset \in {"editor-load", "mock-load", "browser-load", "editor-save"}
         /\ ~mutatedSinceReset
         /\ mutatedSinceReset')
          => dirtySent' = dirtySent + 1 ]_vars

\* C10 (as claimed): a setScaleFactor call from any zoom path leaves the undo
\* history, the template, the selection and isDirty unchanged, so that one
\* undo after "store operation, then zoom steps" restores the document held
\* before the operation.
C10_ZoomKeepsHistory ==
    [][ /\ (calls' = calls + 1 /\ lastCall'.op \in ZoomOps) =>
              /\ pastStates' = pastStates
              /\ futureStates' = futureStates
              /\ template' = template
              /\ selectedBlockId' = selectedBlockId
              /\ isDirty' = isDirty
        /\ (/\ lastCall.op \in ZoomOps
            /\ lastCall.args[2]
            /\ lastCall'.op = "undo")
           => NextDocument = beforeCall ]_vars

---------------------------------------------------------------------------
(* useBlockInteractions.ts: the per-block interaction controller, and the  *)
(* key handler of Block.                                                   *)

DragModes == {"move", "resize-e", "resize-s", "resize-se"}

\* dragStateRef.current = null
NullDragState ==
    [mode |-> "none", startX |-> 0, startY |-> 0, startBlockX |-> 0, startBlockY |-> 0,
     startBlockWidth |-> 0, startBlockHeight |-> 0]

\* the hook state of a block that is not being dragged
Idle == [isDragging |-> FALSE, dragMode |-> "none", dragState |-> NullDragState]

\* Math.round(num / den) for den > 0: the nearest integer, halves upwards
Round(num, den) == (2 * num + den) \div (2 * den)

\* Math.max(lo, Math.min(hi, num / den)) as a numerator over den
Clamp(lo, hi, num, den) == Max(lo * den, Min(hi * den, num))

\* mutant of handleDrag: a move is clamped to the template, not to the
\* template less the block's own size
handleDragToEdge(state, block, clientX, clientY, scale, templateWidth, templateHeight) ==
    LET newX == state.startBlockX * scale + 10 * (clientX - state.startX)
        newY == state.startBlockY * scale + 10 * (clientY - state.startY)
        newWidth == state.startBlockWidth * scale + 10 * (clientX - state.startX)
        newHeight == state.startBlockHeight * scale + 10 * (clientY - state.startY)
        width == Round(Clamp(MinSize, templateWidth - block.x, newWidth, scale), scale)
        height == Round(Clamp(MinSize, templateHeight - block.y, newHeight, scale), scale)
    IN  CASE state.mode = "move" ->
               [x |-> Round(Clamp(0, templateWidth, newX, scale), scale),
                y |-> Round(Clamp(0, templateHeight, newY, scale), scale)]
          [] state.mode = "resize-e" -> [width |-> width]
          [] state.mode = "resize-s" -> [height |-> height]
          [] state.mode = "resize-se" -> [width |-> width, height |-> height]
          [] OTHER -> << >>

\* mutant of handleDrag: a resize has no lower bound but 0
handleDragNoMinSize(state, block, clientX, clientY, scale, templateWidth, templateHeight) ==
    LET newX == state.startBlockX * scale + 10 * (clientX - state.startX)
        newY == state.startBlockY * scale + 10 * (clientY - state.startY)
        newWidth == state.startBlockWidth * scale + 10 * (clientX - state.startX)
        newHeight == state.startBlockHeight * scale + 10 * (clientY - state.startY)
        width == Round(Clamp(0, templateWidth - block.x, newWidth, scale), scale)
        height == Round(Clamp(0, templateHeight - block.y, newHeight, scale), scale)
    IN  CASE state.mode = "move" ->
               [x |-> Round(Clamp(0, templateWidth - block.width, newX, scale), scale),
                y |-> Round(Clamp(0, templateHeight - block.height, newY, scale), scale)]
          [] state.mode = "resize-e" -> [width |-> width]
          [] state.mode = "resize-s" -> [height |-> height]
          [] state.mode = "resize-se" -> [width |-> width, height |-> height]
          [] OTHER -> << >>

\* mutant of handleDrag: the delta is added to the block's current geometry
handleDragIncremental(state, block, clientX, clientY, scale, templateWidth, templateHeight) ==
    LET newX == block.x * scale + 10 * (clientX - state.startX)
        newY == block.y * scale + 10 * (clientY - state.startY)
        newWidth == block.width * scale + 10 * (clientX - state.startX)
        newHeight == block.height * scale + 10 * (clientY - state.startY)
        width == Round(Clamp(MinSize, templateWidth - block.x, newWidth, scale), scale)
        height == Round(Clamp(MinSize, templateHeight - block.y, newHeight, scale), scale)
    IN  CASE state.mode = "move" ->
               [x |-> Round(Clamp(0, templateWidth - block.width, newX, scale), scale),
                y |-> Round(Clamp(0, templateHeight - block.height, newY, scale), scale)]
          [] state.mode = "resize-e" -> [width |-> width]
          [] state.mode = "resize-s" -> [height |-> height]
          [] state.mode = "resize-se" -> [width |-> width, height |-> height]
          [] OTHER -> << >>

\* the updates handleDrag hands to onUpdate for a pointer at (clientX, clientY);
\* scale is scaleFactor in tenths, so delta = 10 * (client - start) / scale
handleDrag(state, block, clientX, clientY, scale, templateWidth, templateHeight) ==
    LET newX == state.startBlockX * scale + 10 * (clientX - state.startX)
        newY == state.startBlockY * scale + 10 * (clientY - state.startY)
        newWidth == state.startBlockWidth * scale + 10 * (clientX - state.startX)
        newHeight == state.startBlockHeight * scale + 10 * (clientY - state.startY)
        width == Round(Clamp(MinSize, templateWidth - block.x, newWidth, scale), scale)
        height == Round(Clamp(MinSize, templateHeight - block.y, newHeight, scale), scale)
    IN  CASE state.mode = "move" ->
               [x |-> Round(Clamp(0, templateWidth - block.width, newX, scale), scale),
                y |-> Round(Clamp(0, templateHeight - block.height, newY, scale), scale)]
          [] state.mode = "resize-e" -> [width |-> width]
          [] state.mode = "resize-s" -> [height |-> height]
          [] state.mode = "resize-se" -> [width |-> width, height |-> height]
          [] OTHER -> << >>

\* mutant of keyUpdates: ArrowRight and ArrowDown step without a bound
keyUpdatesUnbounded(block, key, step, templateWidth, templateHeight) ==
    CASE key = "ArrowUp" -> [y |-> Max(0, block.y - step)]
      [] key = "ArrowDown" -> [y |-> block.y + step]
      [] key = "ArrowLeft" -> [x |-> Max(0, block.x - step)]
      [] key = "ArrowRight" -> [x |-> block.x + step]
      [] OTHER -> << >>

\* the updates Block.handleKeyDown hands to updateBlock for an arrow key
keyUpdates(block, key, step, templateWidth, templateHeight) ==
    CASE key = "ArrowUp" -> [y |-> Max(0, block.y - step)]
      [] key = "ArrowDown" -> [y |-> Min(templateHeight - block.height, block.y + step)]
      [] key = "ArrowLeft" -> [x |-> Max(0, block.x - step)]
      [] key = "ArrowRight" -> [x |-> Min(templateWidth - block.width, block.x + step)]
      [] OTHER -> << >>

---------------------------------------------------------------------------
(* Inputs of the interaction specification *)

CanvasSize == MinSize + CanvasSlack

\* a template with one block that lies inside the canvas
InsidePayload ==
    [template |-> [name |-> "inside", backgroundID |-> "",
                   blocks |-> << [Id |-> "d1", Name |-> "Text1", BlockType |-> "Text",
                                  X |-> 1, Y |-> 0, Width |-> MinSize,
                                  Height |-> MinSize + 1] >>],
     zone |-> [graphicsWidth |-> CanvasSize, graphicsHeight |-> CanvasSize]]

\* a template whose only block is wider than the canvas (loadTemplate takes
\* any geometry; addBlock puts a 300 pixel wide block into any template)
OversizedPayload ==
    [template |-> [name |-> "oversized", backgroundID |-> "",
                   blocks |-> << [Id |-> "d2", Name |-> "Picture1", BlockType |-> "Picture",
                                  X |-> 0, Y |-> 1, Width |-> CanvasSize + 1,
                                  Height |-> MinSize] >>],
     zone |-> [graphicsWidth |-> CanvasSize, graphicsHeight |-> CanvasSize]]

DragPayloads == {InsidePayload, OversizedPayload}

\* client coordinates of pointer events
ClientPoints == {<<0, 0>>, <<3, 1>>, <<900, -900>>}
\* scale factors set by the zoom paths while blocks are manipulated, in tenths
DragScaleInputs == {InitialScale, MaxScale}
ArrowKeys == {"ArrowUp", "ArrowDown", "ArrowLeft", "ArrowRight"}

---------------------------------------------------------------------------
(* Actions of the interaction specification.  The temporal history is      *)
(* written but never read by these handlers; this specification leaves it  *)
(* out (pastStates and futureStates stay empty).                           *)

BlockOf(id) == template.blocks[FindIndex(template.blocks, id)]

\* set without the history, then the Editor re-render
InteractionSet(next, dirties) ==
    /\ template' = next.template
    /\ selectedBlockId' = next.selectedBlockId
    /\ isDirty' = next.isDirty
    /\ isLoaded' = next.isLoaded
    /\ scaleFactor' = next.scaleFactor
    /\ EditorRender
    /\ mutatedSinceReset' = (mutatedSinceReset \/ dirties)
    /\ UNCHANGED <<temporalVars, lastReset, observerVars, calls>>

\* mutant of startDrag: the resize modes are captured on an unselected block too
startDragAnyMode(id, clientX, clientY, mode) ==
    LET isSelected == selectedBlockId = id
        block == BlockOf(id)
    IN  /\ InteractionSet(IF isSelected THEN Store ELSE selectBlock(Store, id), FALSE)
        /\ ctl' = [ctl EXCEPT ![id] =
                     [isDragging |-> TRUE,
                      dragMode |-> mode,
                      dragState |-> [mode |-> mode,
                                     startX |-> clientX,
                                     startY |-> clientY,
                                     startBlockX |-> block.x,
                                     startBlockY |-> block.y,
                                     startBlockWidth |-> block.width,
                                     startBlockHeight |-> block.height]]]
        /\ sent' = {}

\* startDrag, reached from handleMouseDown and from handleTouchStart
startDrag(id, clientX, clientY, mode) ==
    LET isSelected == selectedBlockId = id
        block == BlockOf(id)
    IN  /\ InteractionSet(IF isSelected THEN Store ELSE selectBlock(Store, id), FALSE)
        /\ ctl' = IF mode # "move" /\ ~isSelected
                  THEN ctl
                  ELSE [ctl EXCEPT ![id] =
                          [isDragging |-> TRUE,
                           dragMode |-> mode,
                           dragState |-> [mode |-> mode,
                                          startX |-> clientX,
                                          startY |-> clientY,
                                          startBlockX |-> block.x,
                                          startBlockY |-> block.y,
                                          startBlockWidth |-> block.width,
                                          startBlockHeight |-> block.height]]]
        /\ sent' = {}

\* handleMouseDown
handleMouseDown(id, mode, point) == startDrag(id, point[1], point[2], mode)

\* handleTouchStart: a touch-start with more or fewer than one touch is ignored
handleTouchStart(id, mode, point, touches) ==
    IF touches # 1
    THEN UNCHANGED <<storeVars, temporalVars, messageVars, observerVars, ctl, calls>>
         /\ sent' = {}
    ELSE startDrag(id, point[1], point[2], mode)

\* the events of the interaction specification, which leaves the effects of
\* Block and Canvas out
MouseDown(id, mode, point) == handleMouseDown(id, mode, point) /\ UNCHANGED viewVars

TouchStart(id, mode, point, touches) ==
    handleTouchStart(id, mode, point, touches) /\ UNCHANGED viewVars

\* the updateBlock call of one dragging block for a pointer at `point`
DragCall(id, point) ==
    [id |-> id,
     mode |-> ctl[id].dragState.mode,
     updates |-> handleDrag(ctl[id].dragState, BlockOf(id), point[1], point[2],
                            scaleFactor, template.width, template.height)]

Dragging == {id \in DOMAIN ctl : ctl[id].isDragging}

\* a window-level move event: every controller that is dragging has its
\* listener attached and runs handleDrag
PointerMove(point) ==
    LET dragCalls == {DragCall(id, point) : id \in Dragging}
        updatesOf(id) == (CHOOSE c \in dragCalls : c.id = id).updates
        blocks == [i \in DOMAIN template.blocks |->
                     IF template.blocks[i].id \in Dragging
                     THEN Assign(template.blocks[i], updatesOf(template.blocks[i].id))
                     ELSE template.blocks[i]]
    IN  /\ Dragging # {}
        /\ InteractionSet([Store EXCEPT !.template.blocks = blocks, !.isDirty = TRUE], TRUE)
        /\ sent' = dragCalls
        /\ ctl' = ctl

\* window touchmove listener: a move with more or fewer than one touch is ignored
handleTouchMove(point, touches) ==
    IF touches # 1
    THEN /\ Dragging # {}
         /\ UNCHANGED <<storeVars, temporalVars, messageVars, observerVars, ctl, calls>>
         /\ sent' = {}
    ELSE PointerMove(point)

MouseMove(point) == PointerMove(point) /\ UNCHANGED viewVars

TouchMove(point, touches) == handleTouchMove(point, touches) /\ UNCHANGED viewVars

\* mouseup, touchend, touchcancel: endDrag of every dragging controller
endDrag ==
    /\ Dragging # {}
    /\ ctl' = [id \in DOMAIN ctl |-> Idle]
    /\ sent' = {}
    /\ UNCHANGED <<storeVars, temporalVars, messageVars, observerVars, calls>>

PointerUp == endDrag /\ UNCHANGED viewVars

\* Block.handleKeyDown
handleKeyDown(id, key, shiftKey) ==
    LET step == IF shiftKey THEN 10 ELSE 1
        updates == keyUpdates(BlockOf(id), key, step, template.width, template.height)
    IN  /\ IF selectedBlockId # id
           THEN IF key = "Enter"
                THEN InteractionSet(selectBlock(Store, id), FALSE)
                ELSE UNCHANGED <<storeVars, temporalVars, messageVars, observerVars, calls>>
           ELSE IF key \in ArrowKeys
                THEN InteractionSet(updateBlock(Store, id, updates), TRUE)
                ELSE UNCHANGED <<storeVars, temporalVars, messageVars, observerVars, calls>>
        /\ sent' = {}
        /\ ctl' = ctl

KeyDown(id, key, shiftKey) == handleKeyDown(id, key, shiftKey) /\ UNCHANGED viewVars

\* Canvas.handleCanvasClick on the canvas background
handleCanvasClick ==
    /\ InteractionSet(selectBlock(Store, NullId), FALSE)
    /\ sent' = {}
    /\ ctl' = ctl

CanvasClick == handleCanvasClick /\ UNCHANGED viewVars

\* a zoom path sets the scale while blocks are manipulated
zoomWhileDragging(factor) ==
    /\ InteractionSet(setScaleFactor(Store, factor), FALSE)
    /\ sent' = {}
    /\ ctl' = ctl

DragZoom(factor) == zoomWhileDragging(factor) /\ UNCHANGED viewVars

InitDrag ==
    \E payload \in DragPayloads :
        LET loaded == loadTemplate([template |-> NullTemplate, selectedBlockId |-> NullId,
                                    isDirty |-> FALSE, isLoaded |-> FALSE,
                                    scaleFactor |-> InitialScale], payload, {})
        IN  /\ template = loaded.template
            /\ selectedBlockId = loaded.selectedBlockId
            /\ isDirty = loaded.isDirty
            /\ isLoaded = loaded.isLoaded
            /\ scaleFactor = loaded.scaleFactor
            /\ pastStates = << >>
            /\ futureStates = << >>
            /\ isDirtyNotified = FALSE
            /\ dirtySent = 0
            /\ mutatedSinceReset = FALSE
            /\ lastReset = "editor-load"
            /\ lastCall = [op |-> "editor-load", args |-> <<payload>>]
            /\ beforeCall = Document(loaded)
            /\ afterOp = Document(loaded)
            /\ ctl = [id \in BlockIdsOf(loaded.template) |-> Idle]
            /\ sent = {}
            /\ ViewMounted(BlockIdsOf(loaded.template))
            /\ calls = 0

NextDrag ==
    \/ \E id \in BlockIdsOf(template), mode \in DragModes, point \in ClientPoints :
          MouseDown(id, mode, point)
    \/ \E id \in BlockIdsOf(template), mode \in DragModes, point \in ClientPoints :
          TouchStart(id, mode, point, 1)
    \/ \E id \in BlockIdsOf(template) : TouchStart(id, "move", <<0, 0>>, 2)
    \/ \E point \in ClientPoints : MouseMove(point)
    \/ \E point \in ClientPoints : TouchMove(point, 1)
    \/ TouchMove(<<0, 0>>, 2)
    \/ PointerUp
    \/ \E id \in BlockIdsOf(template), key \in ArrowKeys \cup {"Enter"}, shiftKey \in BOOLEAN :
          KeyDown(id, key, shiftKey)
    \/ CanvasClick
    \/ \E factor \in DragScaleInputs : DragZoom(factor)

SpecDrag == InitDrag /\ [][NextDrag]_vars

---------------------------------------------------------------------------
(* Properties of the interaction controller (SpecDrag) *)

\* the move updates handed to updateBlock by the last pointer event
MoveCalls == {c \in sent : c.mode = "move"}
\* the resize updates handed to updateBlock by the last pointer event
ResizeCalls == {c \in sent : c.mode \in {"resize-e", "resize-s", "resize-se"}}

MoveWithinTemplate(c) ==
    /\ c.updates.x >= 0
    /\ c.updates.y >= 0
    /\ c.updates.x + BlockOf(c.id).width <= template.width
    /\ c.updates.y + BlockOf(c.id).height <= template.height

FitsTemplate(block) ==
    /\ block.width <= template.width
    /\ block.height <= template.height

\* C2 (as stated): in Move mode, for any block, start snapshot, scale factor and
\* pointer delta, the x and y handed to updateBlock satisfy x >= 0, y >= 0,
\* x + width <= templateWidth and y + height <= templateHeight.
C2_MoveWithinTemplate == \A c \in MoveCalls : MoveWithinTemplate(c)

\* C2 (amended): the four bounds hold for every block that is no wider and no
\* higher than the template; for a larger block x (or y) is 0 and the far
\* edge lies outside.
C2_MoveWithinTemplateWhenFits ==
    \A c \in MoveCalls :
        /\ c.updates.x >= 0
        /\ c.updates.y >= 0
        /\ FitsTemplate(BlockOf(c.id)) => MoveWithinTemplate(c)

\* a move that was clamped at the right edge of the template, away from x = 0
C2_Witness ==
    \E c \in MoveCalls :
        /\ FitsTemplate(BlockOf(c.id))
        /\ c.updates.x > 0
        /\ c.updates.x + BlockOf(c.id).width = template.width
        /\ c.updates.y = 0
        /\ scaleFactor = MaxScale

\* C3: in every resize mode, for any block and any pointer delta, the width
\* and the height handed to updateBlock are at least minSize.
C3_ResizeAtLeastMinSize ==
    \A c \in ResizeCalls :
        /\ "width" \in DOMAIN c.updates => c.updates.width >= MinSize
        /\ "height" \in DOMAIN c.updates => c.updates.height >= MinSize

\* the pointer that started the resize of the block now being resized
StartOf(c) == ctl[c.id].dragState

\* a resize-se that shrank both dimensions down to minSize
C3_Witness ==
    \E c \in ResizeCalls :
        /\ c.mode = "resize-se"
        /\ StartOf(c).startBlockWidth > MinSize
        /\ StartOf(c).startBlockHeight > MinSize
        /\ c.updates.width = MinSize
        /\ c.updates.height = MinSize

\* the block as the template was loaded with it
InitialBlock(id) ==
    LET payload == CHOOSE p \in DragPayloads : p.template.name = template.name
        blocks == NormalizeAll(payload.template.blocks, 1, {})
    IN  blocks[FindIndex(blocks, id)]

InsideCanvas(block) ==
    /\ block.x >= 0
    /\ block.y >= 0
    /\ block.x + block.width <= template.width
    /\ block.y + block.height <= template.height

---------------------------------------------------------------------------
(* Further properties of the store specification *)

\* the callers of loadTemplate
LoadOps == {"editor-load", "mock-load", "browser-load"}

\* C11 (as claimed): loadTemplate sets isLoaded, clears isDirty and the
\* selection, replaces the template, and resets the undo history: right after
\* a load no undo is available, so no undo can bring back the template or the
\* selection held before the load.
C11_LoadResetsHistory ==
    [][ (calls' = calls + 1 /\ lastCall'.op \in LoadOps) =>
          /\ isLoaded'
          /\ ~isDirty'
          /\ selectedBlockId' = NullId
          /\ template' # NullTemplate
          /\ pastStates' = << >>
          /\ futureStates' = << >> ]_vars

\* C12 (as claimed): in every reachable state selectedBlockId is null or the
\* id of a block of the current template; selectBlock with an id that is not
\* in the template, or with no template loaded, leaves the selection as it was.
C12_SelectionPresent == selectedBlockId = NullId \/ Present(selectedBlockId)

\* the store operations that take a block id as their first argument
IdOps == {"selectBlock", "updateBlock", "deleteBlock", "duplicateBlock"}

\* C13 (as claimed): a store operation called with an id that is not in the
\* template, or called while no template is loaded, is a no-op: template,
\* selectedBlockId, isDirty and isLoaded stay exactly as they were.
C13_MissingIsNoOp ==
    [][ (/\ calls' = calls + 1
         /\ lastCall'.op \in StoreOps \cup {"markDirty"}
         /\ ~(lastCall'.op = "selectBlock" /\ lastCall'.args[1] = NullId)
         /\ \/ template = NullTemplate
            \/ (lastCall'.op \in IdOps /\ ~Present(lastCall'.args[1])))
          => UNCHANGED <<template, selectedBlockId, isDirty, isLoaded>> ]_vars

\* the request clamped to [0.1, 3.0], in tenths
ClampedScale(factor) ==
    IF factor < MinScale THEN MinScale
    ELSE IF factor > MaxScale THEN MaxScale
    ELSE factor

---------------------------------------------------------------------------
(* The load specification: the host loads one payload whose second block   *)
(* record carries any subset of the fields, after which the blocks are     *)
(* reordered and the template is saved.                                    *)

\* the keys of a block record on the wire
WireKeys == {toPascalCase(k) : k \in BlockKeys}

\* a record that supplies every field, none with the value of a default
FullRecord(type) ==
    [Id |-> "r1", Name |-> "Logo", BlockType |-> type, X |-> 5, Y |-> 6,
     Width |-> 70, Height |-> 80, Text |-> "Hi", RectColor |-> "112233"]

RecordTypes == {"Text", "Picture"}

\* the editor-load payload whose second record supplies the fields `keys`
RecordPayload(keys, type) ==
    [template |-> [name |-> "Records", backgroundID |-> "3",
                   blocks |-> << [Id |-> "r0", Name |-> "Rectangle1",
                                  BlockType |-> "Rectangle"],
                                 [k \in keys |-> FullRecord(type)[k]] >>],
     zone |-> [graphicsWidth |-> 1920, graphicsHeight |-> 1080]]

\* MessageService.handleEditorLoad with the payload of the message
EditorLoadOf(payload) == LoadCall("editor-load", payload, FALSE)

\* the one load of a run of the load specification
FirstLoad(payload) ==
    /\ calls = 0
    /\ EditorLoadOf(payload)

\* reorderBlocks on the loaded list
LoadedReorder(fromIndex, toIndex) ==
    /\ calls <= MaxReorders
    /\ ReorderBlocks(fromIndex, toIndex)

NextLoad ==
    \/ \E keys \in SUBSET WireKeys, type \in RecordTypes :
          FirstLoad(RecordPayload(keys, type))
    \/ HostEditorRequest
    \/ \E fromIndex \in 0 .. BlockCount, toIndex \in 0 .. BlockCount :
          LoadedReorder(fromIndex, toIndex)

SpecLoad == Init /\ [][NextLoad]_vars

---------------------------------------------------------------------------
(* Properties of the load specification *)

\* the block type normalizeBlock takes the defaults of
RecordType(record) ==
    IF "BlockType" \in DOMAIN record /\ record.BlockType # ""
    THEN record.BlockType ELSE "Rectangle"

\* block is record number `index` fully populated: every attribute is there,
\* with the record's value when the record has the field and the default of
\* the record's type otherwise (the id: some non-empty id)
FullyPopulated(record, block, index) ==
    LET defaults == createDefaultBlock(RecordType(record),
                                       "Block " \o ToString(index), "")
    IN  /\ DOMAIN block = BlockKeys
        /\ \A k \in BlockKeys :
              IF toPascalCase(k) \in DOMAIN record
              THEN block[k] = record[toPascalCase(k)]
              ELSE IF k = "id" THEN block[k] # ""
              ELSE block[k] = defaults[k]

\* C15: after loadTemplate every block of the template is fully populated:
\* each attribute carries the payload's value when the record supplies the
\* field and the createDefaultBlock default of the record's type otherwise,
\* whatever subset of fields the record provides.
C15_LoadFullyPopulates ==
    [][ (calls' = calls + 1 /\ lastCall'.op \in LoadOps) =>
          LET records == lastCall'.args[1].template.blocks
          IN  /\ Len(template'.blocks) = Len(records)
              /\ \A i \in DOMAIN records :
                    FullyPopulated(records[i], template'.blocks[i], i) ]_vars

\* C15 witness: a Text record with a name and a position but no size, text or
\* colour was loaded; the block has the Text defaults for those
C15_Witness ==
    /\ lastCall.op = "editor-load"
    /\ DOMAIN lastCall.args[1].template.blocks[2] = {"Name", "BlockType", "X", "Y"}
    /\ template # NullTemplate
    /\ Len(template.blocks) = 2
    /\ template.blocks[2].blockType = "Text"
    /\ template.blocks[2].x = 5
    /\ template.blocks[2].height = 100
    /\ template.blocks[2].text = "New Text Block"
    /\ template.blocks[2].rectColor = "FFFFFF"
    /\ template.blocks[2].id \notin {"", "r0"}

\* the blocks a load of the saved Blocks produces
Reloaded(saved) == NormalizeAll(saved.Blocks, 1, UsedIds)

\* C16: getTemplateForSave returns null when no template is loaded and
\* changes no store state; it emits the blocks in their stored order without
\* the id field, and loading its Blocks again yields blocks equal to the
\* stored ones in every attribute other than id, in the same order.
C16_SaveInvertsLoad ==
    /\ [](LET saved == getTemplateForSave(Store)
              reloaded == Reloaded(saved)
          IN  IF template = NullTemplate THEN saved = NullSave
              ELSE /\ saved # NullSave
                   /\ saved.Name = template.name
                   /\ saved.BackgroundID = template.backgroundID
                   /\ Len(saved.Blocks) = Len(template.blocks)
                   /\ Len(reloaded) = Len(template.blocks)
                   /\ \A i \in DOMAIN template.blocks :
                         /\ DOMAIN saved.Blocks[i] = WireKeys \ {"Id"}
                         /\ saved.Blocks[i].Name = template.blocks[i].name
                         /\ DOMAIN reloaded[i] = DOMAIN template.blocks[i]
                         /\ \A k \in BlockKeys \ {"id"} :
                               reloaded[i][k] = template.blocks[i][k])
    /\ [][ (lastReset' = "editor-save" /\ UNCHANGED <<calls, observerVars>>)
              => UNCHANGED <<storeVars, temporalVars>> ]_vars

\* C16 witness: the template was saved after the record that supplied every
\* field was moved in front of the partial one
C16_Witness ==
    /\ lastReset = "editor-save"
    /\ lastCall.op = "reorderBlocks"
    /\ Len(template.blocks) = 2
    /\ getTemplateForSave(Store).Blocks[1] =
          [Name |-> "Logo", BlockType |-> "Picture", X |-> 5, Y |-> 6, Width |-> 70,
           Height |-> 80, Text |-> "Hi", RectColor |-> "112233"]
    /\ getTemplateForSave(Store).Blocks[2].Name = "Rectangle1"
    /\ getTemplateForSave(Store).Blocks[2].Width = 300

---------------------------------------------------------------------------
(* useSnapGuides.ts: the snap engine.  A centre is x + width / 2, so every *)
(* coordinate inside the engine, and every position and snapped coordinate *)
(* of its result, is kept in half pixels (twice the pixel value); the      *)
(* threshold is doubled with them.                                         *)

Abs(n) == IF n < 0 THEN -n ELSE n

\* closestVerticalTarget === undefined, closestVerticalDist = Infinity
NoSnap == [type |-> "none", dist |-> 0, target |-> 0]

\* mutant of closer: a candidate as close as the closest so far replaces it
closerOrEqual(best, dist, snapThreshold) ==
    dist < 2 * snapThreshold /\ (best.type = "none" \/ dist <= best.dist)

\* leftDist < snapThreshold && leftDist < closestVerticalDist
closer(best, dist, snapThreshold) ==
    dist < 2 * snapThreshold /\ (best.type = "none" \/ dist < best.dist)

\* one `if` of the scan: the moving block's edge against one target
tryEdge(best, edge, target, type, snapThreshold) ==
    IF closer(best, Abs(edge - target), snapThreshold)
    THEN [type |-> type, dist |-> Abs(edge - target), target |-> target]
    ELSE best

RECURSIVE scanTargets(_, _, _, _, _, _)
\* for (const target of targets): leading edge, trailing edge, centre
scanTargets(targets, i, edges, types, snapThreshold, best) ==
    IF i > Len(targets) THEN best
    ELSE LET b1 == tryEdge(best, edges[1], targets[i], types[1], snapThreshold)
             b2 == tryEdge(b1, edges[2], targets[i], types[2], snapThreshold)
             b3 == tryEdge(b2, edges[3], targets[i], types[3], snapThreshold)
         IN  scanTargets(targets, i + 1, edges, types, snapThreshold, b3)

RECURSIVE blockTargets(_, _, _, _)
\* targets.push(block.x, block.x + block.width, block.x + block.width / 2)
blockTargets(otherBlocks, i, pos, size) ==
    IF i > Len(otherBlocks) THEN << >>
    ELSE LET block == otherBlocks[i]
         IN  << 2 * block[pos], 2 * (block[pos] + block[size]), 2 * block[pos] + block[size] >>
                 \o blockTargets(otherBlocks, i + 1, pos, size)

\* mutant of snapped: a leading-edge snap is placed like a trailing-edge snap
snappedTrailing(best, size) ==
    CASE best.type \in {"left", "top"} -> best.target - 2 * size
      [] best.type \in {"right", "bottom"} -> best.target - 2 * size
      [] OTHER -> best.target - size

\* switch (verticalSnapType): the coordinate that puts the edge on the target
snapped(best, size) ==
    CASE best.type \in {"left", "top"} -> best.target
      [] best.type \in {"right", "bottom"} -> best.target - 2 * size
      [] OTHER -> best.target - size

calculateSnapPoints(movingBlock, otherBlocks, templateWidth, templateHeight, snapThreshold) ==
    LET verticalTargets == << 0, 2 * templateWidth, templateWidth >>
                               \o blockTargets(otherBlocks, 1, "x", "width")
        horizontalTargets == << 0, 2 * templateHeight, templateHeight >>
                                 \o blockTargets(otherBlocks, 1, "y", "height")
        vertical == scanTargets(verticalTargets, 1,
                        << 2 * movingBlock.x,
                           2 * (movingBlock.x + movingBlock.width),
                           2 * movingBlock.x + movingBlock.width >>,
                        << "left", "right", "center" >>, snapThreshold, NoSnap)
        horizontal == scanTargets(horizontalTargets, 1,
                        << 2 * movingBlock.y,
                           2 * (movingBlock.y + movingBlock.height),
                           2 * movingBlock.y + movingBlock.height >>,
                        << "top", "bottom", "center" >>, snapThreshold, NoSnap)
        verticalGuides == IF vertical.type = "none" THEN << >>
                          ELSE << [type |-> "vertical", position |-> vertical.target] >>
        horizontalGuides == IF horizontal.type = "none" THEN << >>
                            ELSE << [type |-> "horizontal", position |-> horizontal.target] >>
        x == IF vertical.type = "none" THEN << >>
             ELSE [snappedX |-> snapped(vertical, movingBlock.width)]
        y == IF horizontal.type = "none" THEN << >>
             ELSE [snappedY |-> snapped(horizontal, movingBlock.height)]
    IN  Assign(Assign([guides |-> verticalGuides \o horizontalGuides], x), y)

RECURSIVE Without(_, _)
\* blocks.filter(b => b.id !== draggingBlockId)
Without(blocks, id) ==
    IF blocks = << >> THEN << >>
    ELSE IF Head(blocks).id = id THEN Without(Tail(blocks), id)
    ELSE << Head(blocks) >> \o Without(Tail(blocks), id)

\* the block a gesture moves: the one whose controller is dragging
movingBlockId == IF Dragging = {} THEN NullId ELSE CHOOSE id \in Dragging : TRUE

\* the SnapResult of the block being dragged, as useSnapGuides computes it
SnapResult ==
    calculateSnapPoints(BlockOf(movingBlockId), Without(template.blocks, movingBlockId),
                        template.width, template.height, SnapThreshold)

\* the guides Canvas draws: those of the block Canvas.draggingBlockId names
useSnapGuides ==
    IF draggingBlockId = NullId \/ ~Present(draggingBlockId) THEN << >>
    ELSE calculateSnapPoints(BlockOf(draggingBlockId),
                             Without(template.blocks, draggingBlockId),
                             template.width, template.height, SnapThreshold).guides

---------------------------------------------------------------------------
(* The snap specification: one drag gesture over a template of three       *)
(* blocks, at scale 1.0.                                                   *)

SnapPayload ==
    [template |-> [name |-> "snap", backgroundID |-> "",
                   blocks |-> << [Id |-> "s1", Name |-> "Text1", BlockType |-> "Text",
                                  X |-> 0, Y |-> 0, Width |-> 30, Height |-> 21],
                                 [Id |-> "s2", Name |-> "Rectangle1", BlockType |-> "Rectangle",
                                  X |-> 44, Y |-> 30, Width |-> 20, Height |-> 20],
                                 [Id |-> "s3", Name |-> "Rectangle2", BlockType |-> "Rectangle",
                                  X |-> 8, Y |-> 5, Width |-> 10, Height |-> 10] >>],
     zone |-> [graphicsWidth |-> 100, graphicsHeight |-> 60]]

\* client coordinates of the pointer during the gesture, which starts at (0, 0)
SnapPoints == {<<x, y>> : x \in 0 .. 70, y \in {0, 9, 10, 20}}

InitSnap ==
    LET loaded == loadTemplate([template |-> NullTemplate, selectedBlockId |-> NullId,
                                isDirty |-> FALSE, isLoaded |-> FALSE,
                                scaleFactor |-> InitialScale], SnapPayload, {})
    IN  /\ template = loaded.template
        /\ selectedBlockId = loaded.selectedBlockId
        /\ isDirty = loaded.isDirty
        /\ isLoaded = loaded.isLoaded
        /\ scaleFactor = loaded.scaleFactor
        /\ pastStates = << >>
        /\ futureStates = << >>
        /\ isDirtyNotified = FALSE
        /\ dirtySent = 0
        /\ mutatedSinceReset = FALSE
        /\ lastReset = "editor-load"
        /\ lastCall = [op |-> "editor-load", args |-> <<SnapPayload>>]
        /\ beforeCall = Document(loaded)
        /\ afterOp = Document(loaded)
        /\ ctl = [id \in BlockIdsOf(loaded.template) |-> Idle]
        /\ sent = {}
        /\ ViewMounted(BlockIdsOf(loaded.template))
        /\ calls = 0

\* the button goes down on a block while no block is being dragged
GestureStart(id) ==
    /\ Dragging = {}
    /\ MouseDown(id, "move", <<0, 0>>)

NextSnap ==
    \/ \E id \in BlockIdsOf(template) : GestureStart(id)
    \/ \E point \in SnapPoints : MouseMove(point)

SpecSnap == InitSnap /\ [][NextSnap]_vars

---------------------------------------------------------------------------
(* Properties of the snap engine (SpecSnap).  Coordinates in half pixels.  *)

MovingBlock == BlockOf(movingBlockId)
OtherBlocks == Without(template.blocks, movingBlockId)

\* the candidate targets of an axis, numbered in scan order: the canvas edge
\* 0, the far canvas edge, the canvas centre, then for each other block in
\* sequence its near edge, far edge and centre
TargetCount == 3 + 3 * Len(OtherBlocks)
TargetAt(j, pos, size, extent) ==
    IF j = 1 THEN 0
    ELSE IF j = 2 THEN 2 * extent
    ELSE IF j = 3 THEN extent
    ELSE LET block == OtherBlocks[((j - 4) \div 3) + 1]
         IN  CASE (j - 4) % 3 = 0 -> 2 * block[pos]
               [] (j - 4) % 3 = 1 -> 2 * (block[pos] + block[size])
               [] OTHER -> 2 * block[pos] + block[size]

\* edge 1: leading edge, 2: trailing edge, 3: centre of the moving block
EdgeAt(e, pos, size) ==
    CASE e = 1 -> 2 * MovingBlock[pos]
      [] e = 2 -> 2 * (MovingBlock[pos] + MovingBlock[size])
      [] OTHER -> 2 * MovingBlock[pos] + MovingBlock[size]

\* a candidate alignment: target j against edge e
Candidates == (1 .. TargetCount) \X (1 .. 3)
CandDist(c, pos, size, extent) == Abs(EdgeAt(c[2], pos, size) - TargetAt(c[1], pos, size, extent))
ScanOrder(c) == 3 * (c[1] - 1) + c[2]

\* the candidates at the minimum distance over all candidates
Closest(pos, size, extent) ==
    {c \in Candidates :
        \A d \in Candidates : CandDist(c, pos, size, extent) <= CandDist(d, pos, size, extent)}

\* the first of them in scan order
FirstClosest(pos, size, extent) ==
    CHOOSE c \in Closest(pos, size, extent) :
        \A d \in Closest(pos, size, extent) : ScanOrder(c) <= ScanOrder(d)

GuidesOf(type) == {i \in DOMAIN SnapResult.guides : SnapResult.guides[i].type = type}

\* what the claim requires of one axis of the result
AxisSnapsToFirstClosest(type, key, pos, size, extent) ==
    LET first == FirstClosest(pos, size, extent)
        target == TargetAt(first[1], pos, size, extent)
    IN  /\ Cardinality(GuidesOf(type)) <= 1
        /\ IF CandDist(first, pos, size, extent) < 2 * SnapThreshold
           THEN /\ \E i \in GuidesOf(type) : SnapResult.guides[i].position = target
                /\ key \in DOMAIN SnapResult
                /\ SnapResult[key] =
                      CASE first[2] = 1 -> target
                        [] first[2] = 2 -> target - 2 * MovingBlock[size]
                        [] OTHER -> target - MovingBlock[size]
           ELSE /\ GuidesOf(type) = {}
                /\ key \notin DOMAIN SnapResult

\* C19: calculateSnapPoints yields at most one guide per axis; the guide is at
\* the candidate target whose distance to the moving block's leading edge,
\* trailing edge or centre is the minimum over all candidates and strictly
\* below snapThreshold (none at exactly snapThreshold); among equal minimum
\* distances the first in scan order wins; the snapped coordinate puts the
\* chosen edge or centre on the target.
C19_SnapsToFirstClosest ==
    movingBlockId # NullId =>
        /\ Len(SnapResult.guides) <= 2
        /\ AxisSnapsToFirstClosest("vertical", "snappedX", "x", "width", template.width)
        /\ AxisSnapsToFirstClosest("horizontal", "snappedY", "y", "height", template.height)

\* C19 witness: on the x axis two candidates with different targets are at the
\* same minimum distance below the threshold; the one guide is at the target
\* scanned first and the snapped x differs from the block's x
C19_Witness ==
    /\ movingBlockId # NullId
    /\ \E c, d \in Closest("x", "width", template.width) :
          /\ TargetAt(c[1], "x", "width", template.width)
                # TargetAt(d[1], "x", "width", template.width)
          /\ CandDist(c, "x", "width", template.width) < 2 * SnapThreshold
          /\ CandDist(c, "x", "width", template.width) > 0
    /\ Cardinality(GuidesOf("vertical")) = 1
    /\ \A i \in GuidesOf("vertical") :
          SnapResult.guides[i].position =
             TargetAt(FirstClosest("x", "width", template.width)[1], "x", "width",
                      template.width)
    /\ SnapResult.snappedX # 2 * MovingBlock.x

\* the candidate "left edge of the moving block against the right edge of the
\* i-th other block"
LeftToRightOf(i) == <<3 + 3 * (i - 1) + 2, 1>>

\* exactly one vertical guide, at `target`, and snappedX on it
SnapsLeftTo(target) ==
    /\ Cardinality(GuidesOf("vertical")) = 1
    /\ \A i \in GuidesOf("vertical") : SnapResult.guides[i].position = target
    /\ "snappedX" \in DOMAIN SnapResult
    /\ SnapResult.snappedX = target

\* C17 (as claimed): when the moving block's left edge is at a distance
\* strictly below snapThreshold from another block's right edge and no
\* candidate alignment on the x axis is closer, the result has exactly one
\* vertical guide, at that right edge, and snappedX is that position.
C17_SnapsLeftToRightEdge ==
    movingBlockId # NullId =>
        \A i \in DOMAIN OtherBlocks :
            LET mine == LeftToRightOf(i)
            IN  (/\ CandDist(mine, "x", "width", template.width) < 2 * SnapThreshold
                 /\ mine \in Closest("x", "width", template.width))
                  => SnapsLeftTo(TargetAt(mine[1], "x", "width", template.width))

\* C17 (amended): ... and no candidate alignment on the x axis is closer, nor
\* equally close and earlier in the scan order.
C17_SnapsLeftToRightEdgeWhenFirst ==
    movingBlockId # NullId =>
        \A i \in DOMAIN OtherBlocks :
            LET mine == LeftToRightOf(i)
            IN  (/\ CandDist(mine, "x", "width", template.width) < 2 * SnapThreshold
                 /\ mine = FirstClosest("x", "width", template.width))
                  => SnapsLeftTo(TargetAt(mine[1], "x", "width", template.width))

\* C17 witness: the left edge is near, but not on, the right edge of the
\* first other block, nothing is closer or earlier, and a later candidate is
\* equally close
C17_Witness ==
    /\ movingBlockId # NullId
    /\ LeftToRightOf(1) = FirstClosest("x", "width", template.width)
    /\ CandDist(LeftToRightOf(1), "x", "width", template.width) > 0
    /\ CandDist(LeftToRightOf(1), "x", "width", template.width) < 2 * SnapThreshold
    /\ Cardinality(Closest("x", "width", template.width)) > 1
    /\ SnapsLeftTo(TargetAt(LeftToRightOf(1)[1], "x", "width", template.width))

---------------------------------------------------------------------------
(* History specification: a long run of structural operations (a load,     *)
(* then renames and selection changes in turn), followed by undo and redo  *)
(* calls.  Operations stop once an undo has been made, so that a state is  *)
(* told by the number of operations made and the number of undos pending.  *)

\* the store as created (editorStore.ts initial state)
InitialStore ==
    [template |-> NullTemplate,
     selectedBlockId |-> NullId,
     isDirty |-> FALSE,
     isLoaded |-> FALSE,
     scaleFactor |-> InitialScale]

\* the block-list click: select the first block, or clear the selection
ToggledSelection(s) ==
    IF s.selectedBlockId = NullId THEN s.template.blocks[1].id ELSE NullId

\* the structural operation made as call number n + 1 of the run
StructuralOp(s, n) ==
    IF n = 0 THEN loadTemplate(s, MockPayload, {})
    ELSE IF n % 2 = 1 THEN setTemplateName(s, ToString(n))
    ELSE selectBlock(s, ToggledSelection(s))

HistoryStep(op, args) ==
    /\ 0 < calls /\ calls < HistoryCalls
    /\ futureStates = << >>
    /\ TemporalSet(StructuralOp(Store, calls))
    /\ EditorRender
    /\ mutatedSinceReset' = (mutatedSinceReset \/ op = "setTemplateName")
    /\ lastReset' = lastReset
    /\ lastCall' = [op |-> op, args |-> args]
    /\ beforeCall' = Document(Store)
    /\ afterOp' = Document(StructuralOp(Store, calls))
    /\ UNCHANGED <<dragVars, viewVars>>

HistoryLoad == calls = 0 /\ MockLoad

HistoryRename == calls % 2 = 1 /\ HistoryStep("setTemplateName", <<ToString(calls)>>)

HistorySelect == calls % 2 = 0 /\ HistoryStep("selectBlock", <<ToggledSelection(Store)>>)

NextHistory ==
    \/ HistoryLoad
    \/ HistoryRename
    \/ HistorySelect
    \/ Undo
    \/ Redo

SpecHistory == Init /\ [][NextHistory]_vars

RECURSIVE StateAfter(_)
\* the store after the first n structural operations of the run
StateAfter(n) ==
    IF n = 0 THEN InitialStore ELSE StructuralOp(StateAfter(n - 1), n - 1)

\* a store holding the document of a snapshot
StoreOf(snapshot) ==
    [InitialStore EXCEPT !.template = snapshot.template,
                         !.selectedBlockId = snapshot.selectedBlockId]

\* the documents the history knows, in order of creation: the past states,
\* the current document, the undone states (latest undone first in the store)
Timeline ==
    pastStates \o <<Document(Store)>> \o
    [i \in 1 .. Len(futureStates) |-> futureStates[Len(futureStates) + 1 - i]]

\* the number of the structural operation that made Timeline[1], 0 for the
\* document of the store as created
TimelineStart == calls + 1 - Len(Timeline)

\* C18: the history never holds more than 50 past states; after n structural
\* operations and k consecutive undo calls, k is at most min(n, 50), the
\* history holds min(n, 50) - k past states, and past states, current
\* document and undone states are, in this order, the documents the last
\* min(n, 50) + 1 operations of the run produced, one operation apart: undo
\* walks back through the 50 most recent earlier states, latest first, and
\* no further.
C18_HistoryBounded ==
    /\ Len(pastStates) <= Limit
    /\ Len(pastStates) + Len(futureStates) = Min(calls, Limit)
    /\ TimelineStart = 0 => Timeline[1] = Document(InitialStore)
    /\ \A i \in 1 .. Len(Timeline) - 1 :
          Timeline[i + 1] =
              Document(StructuralOp(StoreOf(Timeline[i]), TimelineStart + i - 1))

\* more than 50 operations were made and 50 undo calls have walked back: the
\* history is empty, although two earlier states were never revisited
C18_Witness ==
    /\ calls = Limit + 2
    /\ Len(futureStates) = Limit
    /\ pastStates = << >>
    /\ Document(Store) = Document(StateAfter(2))
    /\ Document(Store) # Document(StateAfter(1))
    /\ lastCall.op = "undo"

---------------------------------------------------------------------------
(* Insertion specification: one load of a template holding 0 to            *)
(* MaxExisting blocks, then addBlock, selection, undo and redo.            *)

\* an editor-load payload whose template holds k rectangles
StackPayload(k) ==
    [template |-> [name |-> "Stack", backgroundID |-> "",
                   blocks |-> [i \in 1 .. k |->
                                 [Name |-> "Rectangle" \o ToString(i),
                                  BlockType |-> "Rectangle",
                                  X |-> 10 * i, Y |-> 10 * i]]],
     zone |-> [graphicsWidth |-> 1920, graphicsHeight |-> 1080]]

StackLoad(k) == calls = 0 /\ LoadCall("editor-load", StackPayload(k), FALSE)

\* Toolbar: addBlock on whatever the template holds
AddToStack(type, name) ==
    StoreCall("addBlock", <<type, name>>, addBlock(Store, type, name, FreshId(UsedIds)),
              template # NullTemplate)

\* reorderBlocks on the freshly loaded stack, with every index from one below
\* the first position to one past the last
StackReorder(fromIndex, toIndex) ==
    /\ calls = 1
    /\ StoreCall("reorderBlocks", <<fromIndex, toIndex>>,
                 reorderBlocks(Store, fromIndex, toIndex),
                 reorderBlocks(Store, fromIndex, toIndex) # Store)

NextAdd ==
    \/ \E k \in 0 .. MaxExisting : StackLoad(k)
    \/ \E input \in AddInputs : AddToStack(input[1], input[2])
    \/ \E fromIndex \in -1 .. BlockCount, toIndex \in -1 .. BlockCount :
            StackReorder(fromIndex, toIndex)
    \/ \E id \in IdInputs \cup {NullId} : SelectBlock(id)
    \/ Undo
    \/ Redo

SpecAdd == Init /\ [][NextAdd]_vars

\* an addBlock step on a loaded template: the new block comes first, the
\* existing blocks follow unchanged and in their order, the new block has the
\* requested type and a fresh id, is selected, and the store is dirty
AddBlockInserts ==
    LET count == Len(template.blocks)
        newBlock == template'.blocks[1]
    IN  /\ Len(template'.blocks) = count + 1
        /\ \A i \in 1 .. count : template'.blocks[i + 1] = template.blocks[i]
        /\ newBlock.blockType = lastCall'.args[1]
        /\ newBlock.id \notin BlockIdsOf(template)
        /\ selectedBlockId' = newBlock.id
        /\ isDirty'

AddBlockStep == IsCall("addBlock") /\ template # NullTemplate

\* C20 as stated: addBlock on a loaded template holding count blocks inserts
\* the new block at index 0, keeps the existing blocks in order, selects it,
\* sets isDirty and places it at x = y = (50 + 20*count) mod 100.
C20_AddBlockPlacement ==
    [][AddBlockStep =>
        /\ AddBlockInserts
        /\ template'.blocks[1].x = (50 + 20 * Len(template.blocks)) % 100
        /\ template'.blocks[1].y = (50 + 20 * Len(template.blocks)) % 100]_vars

\* the position addBlock gives the new block of a template holding count blocks
AddBlockPosition(count) == IF count = 0 THEN 100 ELSE 50 + ((20 * count) % 100)

\* C20, amended: as above, but the new block is placed at the default
\* x = y = 100 when the template holds no block, and at
\* x = y = 50 + ((20*count) mod 100) when it holds count > 0 blocks.
C20_AddBlockPlacementOffset ==
    [][AddBlockStep =>
        /\ AddBlockInserts
        /\ template'.blocks[1].x = AddBlockPosition(Len(template.blocks))
        /\ template'.blocks[1].y = AddBlockPosition(Len(template.blocks))]_vars

\* addBlock has just run on a template of five blocks: the offset wrapped
\* around and the new block sits at (50, 50), on top of the five
C20_Witness ==
    /\ lastCall.op = "addBlock"
    /\ beforeCall.template # NullTemplate
    /\ Len(beforeCall.template.blocks) = 5
    /\ Len(template.blocks) = 6
    /\ template.blocks[1].x = 50 /\ template.blocks[1].y = 50
    /\ selectedBlockId = template.blocks[1].id
    /\ isDirty

---------------------------------------------------------------------------
(* The effects of Block and Canvas (Canvas.tsx, Block.tsx).  An event is   *)
(* one step: its handler, the renders it causes and the effects of those   *)
(* renders, until no state changes any more.                               *)
(*                                                                         *)
(* Canvas renders when template, selectedBlockId or scaleFactor of the     *)
(* store, or its own draggingBlockId, changed, and then renders every      *)
(* Block; a Block renders by itself when isDragging or dragMode of its     *)
(* hook changed.  Canvas hands every Block new onDragStart and onDragEnd   *)
(* closures and Block hands its hook a new onUpdate closure on each        *)
(* render, so both effects of a rendered Block run again.                  *)

\* the ids of the blocks of `blocks` in sequence order restricted to `ids`,
\* and the last of them: effects run in the order of the Block elements
LastRendered(blocks, ids) ==
    blocks[CHOOSE i \in DOMAIN blocks :
              /\ blocks[i].id \in ids
              /\ \A j \in DOMAIN blocks : j > i => blocks[j].id \notin ids].id

\* mutant of notifyParent: every Block reports a drag start
notifyParentAlways(dragging, id) == id

\* Block effect "notify parent of drag state changes": what the Block `id`
\* hands to setDraggingBlockId through onDragStart or onDragEnd
notifyParent(dragging, id) == IF dragging THEN id ELSE NullId

\* the value of draggingBlockId after the effects of the Blocks `ids` ran in
\* one pass: the state updates are batched, the last one stands
Notified(blocks, hooks, ids, current) ==
    IF ids = {} THEN current
    ELSE notifyParent(hooks[LastRendered(blocks, ids)].isDragging,
                      LastRendered(blocks, ids))

\* mutant of listenerEffect: the cleanup leaves the listeners attached
listenerEffectNoCleanup(attached, rendered, dragging) ==
    attached + (IF rendered /\ dragging THEN 1 ELSE 0)

\* useBlockInteractions effect "global handlers" of one Block: the cleanup
\* of the previous run removes its set of listeners, the new run attaches
\* one while isDragging
listenerEffect(attached, rendered, dragging) ==
    IF ~rendered THEN attached
    ELSE (IF attached > 0 THEN attached - 1 ELSE 0) + (IF dragging THEN 1 ELSE 0)

\* the renders and effects after a handler ran (the primed store and hook
\* states are the handler's results)
EffectsSettle ==
    LET blocks == IF template' = NullTemplate THEN << >> ELSE template'.blocks
        ids == BlockIdsOf(template')
        canvasRenders ==
            <<template', selectedBlockId', scaleFactor'>> #
            <<template, selectedBlockId, scaleFactor>>
        hookRenders ==
            {id \in ids \cap DOMAIN ctl :
                <<ctl'[id].isDragging, ctl'[id].dragMode>> #
                <<ctl[id].isDragging, ctl[id].dragMode>>}
        \* the notify effect of a Block runs when its isDragging changed or,
        \* after a Canvas render, its callbacks are new closures
        turned == {id \in hookRenders : ctl'[id].isDragging # ctl[id].isDragging}
        afterFirst == Notified(blocks, ctl', IF canvasRenders THEN ids ELSE turned,
                               draggingBlockId)
        canvasAgain == afterFirst # draggingBlockId
        rendered == IF canvasRenders \/ canvasAgain THEN ids ELSE hookRenders
        wasAttached(id) == IF id \in DOMAIN listeners THEN listeners[id] ELSE 0
        cleanups == {id \in DOMAIN listeners :
                        listeners[id] > 0 /\ (id \notin ids \/ id \in rendered)}
        setups == {id \in rendered : ctl'[id].isDragging}
    IN  /\ draggingBlockId' =
              IF canvasAgain THEN Notified(blocks, ctl', ids, afterFirst) ELSE afterFirst
        /\ listeners' = [id \in ids |->
                           listenerEffect(wasAttached(id), id \in rendered,
                                          ctl'[id].isDragging)]
        /\ userSelect' = IF setups # {} THEN "none"
                         ELSE IF cleanups # {} THEN ""
                         ELSE userSelect

---------------------------------------------------------------------------
(* The view specification: a template of two blocks, the pointer and key   *)
(* events of its Blocks and of the window, with the effects settled after  *)
(* each event.  Image preloads are left out (see the preview               *)
(* specification).                                                         *)

\* two blocks inside the canvas; the first is smaller than the minimum size
ViewPayload ==
    [template |-> [name |-> "view", backgroundID |-> "",
                   blocks |-> << [Id |-> "v1", Name |-> "Text1", BlockType |-> "Text",
                                  X |-> 2, Y |-> 3, Width |-> 10, Height |-> 10],
                                 [Id |-> "v2", Name |-> "Rectangle1",
                                  BlockType |-> "Rectangle",
                                  X |-> 5, Y |-> 4, Width |-> MinSize,
                                  Height |-> MinSize + 1] >>],
     zone |-> [graphicsWidth |-> 40, graphicsHeight |-> 30]]

\* client coordinates of the pointer-down events and of the pointer-move
\* events of the view specification: back at the start, far right and up
ViewDownPoint == <<0, 0>>
ViewPoints == {<<0, 0>>, <<90, -90>>}
\* the drag modes of the view specification: the block itself and one handle
ViewModes == {"move", "resize-se"}

\* the scale factors the zoom paths set in the view specification, in tenths
ViewScales == {InitialScale, MaxScale}

\* the events that end a drag; none is registered for the mouse leaving the window
EndEvents == {"mouseup", "touchend", "touchcancel"}

Delivered(type, id, mode) ==
    /\ event' = [type |-> type, id |-> id, mode |-> mode]
    /\ EffectsSettle
    /\ UNCHANGED previewVars

ViewMouseDown(id, mode, point) ==
    handleMouseDown(id, mode, point) /\ Delivered("mousedown", id, mode)

ViewTouchStart(id, mode, point) ==
    handleTouchStart(id, mode, point, 1) /\ Delivered("touchstart", id, mode)

ViewMouseMove(point) == PointerMove(point) /\ Delivered("mousemove", NullId, "none")

ViewTouchMove(point) == handleTouchMove(point, 1) /\ Delivered("touchmove", NullId, "none")

ViewEnd(type) == endDrag /\ Delivered(type, NullId, "none")

\* the pointer leaves the window: no listener is registered for it
ViewMouseLeave ==
    /\ UNCHANGED <<storeVars, temporalVars, messageVars, observerVars, ctl, calls>>
    /\ sent' = {}
    /\ Delivered("mouseleave", NullId, "none")

\* Block.handleKeyDown, Delete or Backspace: deleteBlock unmounts the Block
ViewDelete(id) ==
    /\ selectedBlockId = id
    /\ InteractionSet(deleteBlock(Store, id), TRUE)
    /\ ctl' = [other \in DOMAIN ctl \ {id} |-> ctl[other]]
    /\ sent' = {}
    /\ Delivered("keydown", id, "none")

\* a zoom path sets the scale; Canvas and every Block render again
ViewZoom(factor) == zoomWhileDragging(factor) /\ Delivered("wheel", NullId, "none")

InitView ==
    LET loaded == loadTemplate([template |-> NullTemplate, selectedBlockId |-> NullId,
                                isDirty |-> FALSE, isLoaded |-> FALSE,
                                scaleFactor |-> InitialScale], ViewPayload, {})
    IN  /\ template = loaded.template
        /\ selectedBlockId = loaded.selectedBlockId
        /\ isDirty = loaded.isDirty
        /\ isLoaded = loaded.isLoaded
        /\ scaleFactor = loaded.scaleFactor
        /\ pastStates = << >>
        /\ futureStates = << >>
        /\ isDirtyNotified = FALSE
        /\ dirtySent = 0
        /\ mutatedSinceReset = FALSE
        /\ lastReset = "editor-load"
        /\ lastCall = [op |-> "editor-load", args |-> <<ViewPayload>>]
        /\ beforeCall = Document(loaded)
        /\ afterOp = Document(loaded)
        /\ ctl = [id \in BlockIdsOf(loaded.template) |-> Idle]
        /\ sent = {}
        /\ ViewMounted(BlockIdsOf(loaded.template))
        /\ calls = 0

NextView ==
    \/ \E id \in BlockIdsOf(template), mode \in ViewModes :
          ViewMouseDown(id, mode, ViewDownPoint)
    \/ \E id \in BlockIdsOf(template), mode \in ViewModes :
          ViewTouchStart(id, mode, ViewDownPoint)
    \/ \E point \in ViewPoints : ViewMouseMove(point)
    \/ \E point \in ViewPoints : ViewTouchMove(point)
    \/ \E type \in EndEvents : ViewEnd(type)
    \/ ViewMouseLeave
    \/ \E id \in BlockIdsOf(template) : ViewDelete(id)
    \/ \E factor \in ViewScales : ViewZoom(factor)

SpecView == InitView /\ [][NextView]_vars

-----------------------------------------------------------------------------
\* reorderBlocks

ValidReorder(blocks, fromIndex, toIndex) ==
    /\ fromIndex # toIndex
    /\ fromIndex \in 0 .. Len(blocks) - 1
    /\ toIndex \in 0 .. Len(blocks) - 1

\* C21: a reorderBlocks call whose two indices differ and both lie in
\* [0, length-1] puts the block of fromIndex at toIndex (0-based) of the new
\* sequence, leaves the other blocks in their relative order with every block
\* unaltered, none added and none dropped, and sets isDirty; a call with equal
\* indices or an index outside that range changes neither the template nor
\* isDirty.
C21_ReorderMovesOne ==
    [][(IsCall("reorderBlocks") /\ template # NullTemplate) =>
        LET fromIndex == lastCall'.args[1]
            toIndex == lastCall'.args[2]
            blocks == template.blocks
        IN  IF ValidReorder(blocks, fromIndex, toIndex)
            THEN LET moved == blocks[fromIndex + 1]
                 IN  /\ Len(template'.blocks) = Len(blocks)
                     /\ template'.blocks[toIndex + 1] = moved
                     /\ Without(template'.blocks, moved.id) = Without(blocks, moved.id)
                     /\ template' = [template EXCEPT !.blocks = template'.blocks]
                     /\ isDirty'
            ELSE template' = template /\ isDirty' = isDirty]_vars

\* the first of at least four blocks was moved to the third position: the
\* second and third block moved up, the fourth stayed
C21_Witness ==
    /\ lastCall.op = "reorderBlocks"
    /\ lastCall.args = <<0, 2>>
    /\ template # NullTemplate
    /\ beforeCall.template # NullTemplate
    /\ Len(template.blocks) >= 4
    /\ template.blocks[3] = beforeCall.template.blocks[1]
    /\ template.blocks[1] = beforeCall.template.blocks[2]
    /\ template.blocks[2] = beforeCall.template.blocks[3]
    /\ template.blocks[4] = beforeCall.template.blocks[4]

-----------------------------------------------------------------------------
(* Properties of the view specification *)

DownEvents == {"mousedown", "touchstart"}

\* the snapshot startDrag takes of the block under the pointer
SnapshotOf(id, mode, point) ==
    [mode |-> mode, startX |-> point[1], startY |-> point[2],
     startBlockX |-> BlockOf(id).x, startBlockY |-> BlockOf(id).y,
     startBlockWidth |-> BlockOf(id).width, startBlockHeight |-> BlockOf(id).height]

\* C22: a pointer-down (mouse or single touch) always leaves the block
\* selected; in move mode, and in a resize mode on a block that was already
\* selected, the controller is Dragging in that mode afterwards with the
\* snapshot of the block's geometry; in a resize mode on a block that was not
\* selected no controller changes (an Idle one stays Idle, no snapshot is
\* taken), and a pointer-move sends updates of Dragging controllers only.  No
\* step whatsoever turns a controller to Dragging in a resize mode unless the
\* block was the selection before the step.
C22_ResizeNeedsSelection ==
    /\ [][event'.type \in DownEvents =>
            LET id == event'.id
                mode == event'.mode
            IN  /\ selectedBlockId' = id
                /\ IF mode = "move" \/ selectedBlockId = id
                   THEN /\ ctl'[id].isDragging
                        /\ ctl'[id].dragMode = mode
                        /\ ctl'[id].dragState = SnapshotOf(id, mode, ViewDownPoint)
                   ELSE ctl' = ctl]_vars
    /\ [][\A id \in DOMAIN ctl \cap DOMAIN ctl' :
            (ctl'[id] # ctl[id] /\ ctl'[id].isDragging /\ ctl'[id].dragMode # "move")
                => selectedBlockId = id]_vars
    /\ [][\A c \in sent' : c.id \in Dragging /\ c.mode = ctl[c.id].dragMode]_vars

\* a resize pointer-down selected a block whose controller stayed Idle while
\* the other block is being dragged
C22_Witness ==
    /\ event.type = "mousedown"
    /\ event.mode = "resize-se"
    /\ selectedBlockId = event.id
    /\ ctl[event.id] = Idle
    /\ Dragging # {}

\* C23 (as claimed): after a pointer-up, a touch-end, a touch-cancel and after
\* the mouse left the window every controller is Idle, and none of these events
\* changes the template (the geometry of the last update stands).
C23_DragEndsOnEveryEnd ==
    /\ [](event.type \in EndEvents \cup {"mouseleave"} => Dragging = {})
    /\ [][event'.type \in EndEvents \cup {"mouseleave"} => template' = template]_vars

\* the part of C23 the listeners implement: mouseup, touchend and touchcancel
\* end every drag and leave the template as the last update left it
DragEndsOnRegisteredEnd ==
    /\ [](event.type \in EndEvents => Dragging = {})
    /\ [][event'.type \in EndEvents => template' = template]_vars

\* C24: in every reachable state each mounted Block has one set of window
\* listeners attached while its controller is Dragging and none while it is
\* Idle, whatever re-registrations the updates of the drag caused, and
\* document.body.style.userSelect is 'none' while some controller is Dragging
\* and '' otherwise, also after the dragged block was deleted.
C24_ListenersWhileDragging ==
    /\ DOMAIN listeners = DOMAIN ctl
    /\ \A id \in DOMAIN ctl : listeners[id] = IF ctl[id].isDragging THEN 1 ELSE 0
    /\ userSelect = IF Dragging # {} THEN "none" ELSE ""

\* the only block left was deleted while it was dragged (Canvas still holds
\* its id): no listener is left and the text selection is restored
C24_Witness ==
    /\ event.type = "keydown"
    /\ template.blocks = << >>
    /\ draggingBlockId = event.id
    /\ listeners = << >>
    /\ userSelect = ""

\* the listeners were registered again after an update of the drag
ReRegistered ==
    /\ event.type = "mousemove"
    /\ \E c \in sent : listeners[c.id] = 1 /\ BlockOf(c.id).x # ctl[c.id].dragState.startBlockX
    /\ userSelect = "none"

\* C25 (as claimed): in every reachable state at most one controller is
\* Dragging, and one pointer-move event calls updateBlock for at most one block.
C25_OneDragAtATime ==
    /\ Cardinality(Dragging) <= 1
    /\ Cardinality({c.id : c \in sent}) <= 1

\* C27 (as claimed): once the effects have settled, Canvas.draggingBlockId is
\* the id of the block whose controller is Dragging, whatever its index in the
\* block sequence, and null when no controller is Dragging; the guide list is
\* empty when no block is dragged.
C27_GuidesFollowDrag ==
    /\ Dragging # {} => draggingBlockId \in Dragging
    /\ Dragging = {} => draggingBlockId = NullId /\ useSnapGuides = << >>

\* what the effects leave in Canvas.draggingBlockId: the id of the last block
\* of the sequence while that block is dragged, and null while any other
\* block is dragged
LastBlockNotifies ==
    template.blocks # << >> =>
        LET last == template.blocks[Len(template.blocks)].id
        IN  draggingBlockId = IF last \in Dragging THEN last ELSE NullId

---------------------------------------------------------------------------
(* The preview specification: the image preload effect of each Block.  A   *)
(* Block whose block object changed builds the render URL and loads it     *)
(* into a new Image; the loads complete in any order.                      *)

\* block updates offered in one run of the preview specification
MaxFetches == 3

\* buildRenderUrl without an apiBaseUrl: the parameters the blocks of the
\* model carry (the type-specific styling parameters are the same in every
\* URL of a block and left out, and so is the percent-encoding of the
\* values, which is one-to-one), then the cache buster _t = Date.now(); a
\* Picture block of the model has no mediaID and gets the constant URL
buildRenderUrl(block, templateWidth, templateHeight, now) ==
    IF block.blockType = "Picture"
    THEN "/CablecastCGAPI/v1/render/full?BlockType=Rectangle&RectColorOpacity=0"
    ELSE "/CablecastCGAPI/v1/render/full?ZoneWidth=" \o ToString(templateWidth)
            \o "&ZoneHeight=" \o ToString(templateHeight)
            \o "&X=" \o ToString(block.x) \o "&Y=" \o ToString(block.y)
            \o "&Width=" \o ToString(block.width)
            \o "&Height=" \o ToString(block.height)
            \o "&BlockType=" \o block.blockType \o "&Name=" \o block.name
            \o (IF block.blockType = "Text" THEN "&Text=" \o block.text ELSE "")
            \o "&RectColor=" \o block.rectColor
            \o "&_t=" \o ToString(now)

\* the Image the effect of Block `id` creates at time `now`
Preload(t, id, now) ==
    [id |-> id, t |-> now,
     url |-> buildRenderUrl(t.blocks[FindIndex(t.blocks, id)], t.width, t.height, now)]

PreviewPayload ==
    [template |-> [name |-> "preview", backgroundID |-> "",
                   blocks |-> << [Id |-> "p1", Name |-> "Text1", BlockType |-> "Text",
                                  X |-> 0, Y |-> 0, Width |-> 30, Height |-> 20],
                                 [Id |-> "p2", Name |-> "Picture1", BlockType |-> "Picture",
                                  X |-> 5, Y |-> 5, Width |-> 30, Height |-> 20] >>],
     zone |-> [graphicsWidth |-> 100, graphicsHeight |-> 100]]

PreviewUpdates == {[x |-> 0], [x |-> 7], [text |-> "Hi"]}

\* updateBlock from the property panel; the effect of every Block whose block
\* object is a new one starts a preload
PreviewUpdate(id, updates) ==
    LET next == updateBlock(Store, id, updates)
        changed == {b \in BlockIdsOf(template) :
                       next.template.blocks[FindIndex(template.blocks, b)] # BlockOf(b)}
    IN  /\ calls < MaxFetches
        /\ template' = next.template
        /\ selectedBlockId' = next.selectedBlockId
        /\ isDirty' = next.isDirty
        /\ isLoaded' = next.isLoaded
        /\ scaleFactor' = next.scaleFactor
        /\ EditorRender
        /\ mutatedSinceReset' = TRUE
        /\ calls' = calls + 1
        /\ pending' = pending \cup {Preload(next.template, b, calls + 1) : b \in changed}
        /\ lastFetch' = [b \in DOMAIN lastFetch |->
                            IF b \in changed THEN Preload(next.template, b, calls + 1).url
                            ELSE lastFetch[b]]
        /\ imageUrl' = imageUrl
        /\ UNCHANGED <<temporalVars, lastReset, observerVars, dragVars, event, effectVars>>

\* img.onload of one Image still loading: setImageUrl(url)
ImageLoad(img) ==
    /\ img \in pending
    /\ imageUrl' = [imageUrl EXCEPT ![img.id] = img.url]
    /\ pending' = pending \ {img}
    /\ UNCHANGED <<storeVars, temporalVars, messageVars, observerVars, dragVars, event,
                   effectVars, lastFetch, calls>>

\* img.onerror of one Image still loading: the displayed image stays
ImageError(img) ==
    /\ img \in pending
    /\ pending' = pending \ {img}
    /\ UNCHANGED <<storeVars, temporalVars, messageVars, observerVars, dragVars, event,
                   effectVars, imageUrl, lastFetch, calls>>

\* the template is loaded, the Blocks are mounted and their effects have run
InitPreview ==
    LET loaded == loadTemplate([template |-> NullTemplate, selectedBlockId |-> NullId,
                                isDirty |-> FALSE, isLoaded |-> FALSE,
                                scaleFactor |-> InitialScale], PreviewPayload, {})
        ids == BlockIdsOf(loaded.template)
    IN  /\ template = loaded.template
        /\ selectedBlockId = loaded.selectedBlockId
        /\ isDirty = loaded.isDirty
        /\ isLoaded = loaded.isLoaded
        /\ scaleFactor = loaded.scaleFactor
        /\ pastStates = << >>
        /\ futureStates = << >>
        /\ isDirtyNotified = FALSE
        /\ dirtySent = 0
        /\ mutatedSinceReset = FALSE
        /\ lastReset = "editor-load"
        /\ lastCall = [op |-> "editor-load", args |-> <<PreviewPayload>>]
        /\ beforeCall = Document(loaded)
        /\ afterOp = Document(loaded)
        /\ ctl = [id \in ids |-> Idle]
        /\ sent = {}
        /\ event = NoEvent
        /\ draggingBlockId = NullId
        /\ listeners = [id \in ids |-> 0]
        /\ userSelect = ""
        /\ imageUrl = [id \in ids |-> ""]
        /\ pending = {Preload(loaded.template, id, 0) : id \in ids}
        /\ lastFetch = [id \in ids |-> Preload(loaded.template, id, 0).url]
        /\ calls = 0

NextPreview ==
    \/ \E id \in BlockIdsOf(template), updates \in PreviewUpdates : PreviewUpdate(id, updates)
    \/ \E img \in pending : ImageLoad(img)
    \/ \E img \in pending : ImageError(img)

SpecPreview == InitPreview /\ [][NextPreview]_vars

\* C26 (as claimed): once the image of the fetch a Block started last is
\* displayed, it stays displayed until the Block starts a newer fetch: no
\* completion of an older fetch replaces it, in whatever order the loads
\* complete.
C26_NewestPreviewStays ==
    [][\A id \in DOMAIN imageUrl :
          (imageUrl[id] = lastFetch[id] /\ lastFetch'[id] = lastFetch[id])
              => imageUrl'[id] = imageUrl[id]]_vars

\* what the effect does: the image displayed is the one that loaded last
LastLoadedIsDisplayed ==
    [][\A img \in pending \ pending' :
          imageUrl'[img.id] \in {img.url, imageUrl[img.id]}]_vars

---------------------------------------------------------------------------
(* Further properties of the interaction controller (SpecDrag) *)

\* the dimensions a drag mode writes
ModeDimensions(mode) ==
    CASE mode = "move" -> {"x", "y"}
      [] mode = "resize-e" -> {"width"}
      [] mode = "resize-s" -> {"height"}
      [] mode = "resize-se" -> {"width", "height"}
      [] OTHER -> {}

Geometry == {"x", "y", "width", "height"}

\* C28 (as claimed): every updateBlock call of a drag carries only dimensions
\* of its mode, leaves the other dimensions of the block as they were, and
\* carries no dimension whose computed value equals the block's current value.
C28_SparseUpdates ==
    [][\A c \in sent' :
          /\ DOMAIN c.updates \subseteq ModeDimensions(c.mode)
          /\ \A k \in Geometry \ ModeDimensions(c.mode) :
                template'.blocks[FindIndex(template.blocks, c.id)][k] = BlockOf(c.id)[k]
          /\ \A k \in DOMAIN c.updates : c.updates[k] # BlockOf(c.id)[k]]_vars

\* what handleDrag sends: all dimensions of the mode, changed or not, and
\* nothing else
SendsDimensionsOfMode ==
    [][\A c \in sent' :
          /\ DOMAIN c.updates = ModeDimensions(c.mode)
          /\ \A k \in Geometry \ ModeDimensions(c.mode) :
                template'.blocks[FindIndex(template.blocks, c.id)][k] = BlockOf(c.id)[k]]_vars

---------------------------------------------------------------------------
(* The flags of the store (Spec) *)

\* C29 (as claimed): isLoaded never goes back to false; isDirty goes from
\* true to false only in a load or a save; and after a load or a save that no
\* dirtying mutation has followed isDirty is false.
C29_FlagsMonotone ==
    /\ [][isLoaded => isLoaded']_vars
    /\ [][(isDirty /\ ~isDirty') =>
            \/ calls' = calls + 1 /\ lastCall'.op \in LoadOps
            \/ lastReset' = "editor-save" /\ ~mutatedSinceReset']_vars
    /\ []((lastReset \in LoadOps \cup {"editor-save"} /\ ~mutatedSinceReset) => ~isDirty)

\* what the store implements: isLoaded never goes back to false, and only a
\* load takes isDirty from true to false
OnlyLoadClearsDirty ==
    /\ [][isLoaded => isLoaded']_vars
    /\ [][(isDirty /\ ~isDirty') => (calls' = calls + 1 /\ lastCall'.op \in LoadOps)]_vars
    /\ []((lastReset \in LoadOps /\ ~mutatedSinceReset) => ~isDirty)

---------------------------------------------------------------------------
(* The pointer path of a drag (SpecView) *)

\* the geometry in the drag-start snapshot
StartGeometry(state) ==
    [x |-> state.startBlockX, y |-> state.startBlockY,
     width |-> state.startBlockWidth, height |-> state.startBlockHeight]

\* the block with the dimensions its drag mode writes set back to the
\* snapshot: what the block would be had no pointer-move of the drag come
AtDragStart(id) ==
    LET state == ctl[id].dragState
    IN  Assign(BlockOf(id),
               [k \in ModeDimensions(state.mode) |-> StartGeometry(state)[k]])

\* the updates of the move event at `point` are those of a first move to
\* `point` right after the pointer-down, at the current scale
WrittenFromSnapshot(c, point) ==
    c.updates = handleDrag(ctl[c.id].dragState, AtDragStart(c.id), point[1], point[2],
                           scaleFactor, template.width, template.height)

\* the updates are the snapshot's own values
RestoresStart(c) ==
    \A k \in DOMAIN c.updates : c.updates[k] = StartGeometry(ctl[c.id].dragState)[k]

\* the dimensions the drag resizes are at least minSize in the snapshot
ResizesFromMinSize(c) ==
    c.mode # "move" =>
        \A k \in ModeDimensions(c.mode) : StartGeometry(ctl[c.id].dragState)[k] >= MinSize

\* C30 (as claimed): for a block that was inside the canvas at pointer-down,
\* the geometry a pointer-move writes is the one a first move to that position
\* would write at the current scale, whatever pointer-moves came before, and a
\* move back to the pointer-down position writes the snapshot's geometry.
C30_PathIndependent ==
    [][\A point \in ViewPoints :
          (ViewMouseMove(point) \/ ViewTouchMove(point)) =>
              \A c \in sent' :
                  InsideCanvas(StartGeometry(ctl[c.id].dragState)) =>
                      /\ WrittenFromSnapshot(c, point)
                      /\ point = ViewDownPoint => RestoresStart(c)]_vars

\* C30 (amended): the same, with the return to the pointer-down position
\* restoring the snapshot's geometry in a move, and in a resize when the
\* resized dimensions were at least minSize at pointer-down.
C30_PathIndependentFromMinSize ==
    [][\A point \in ViewPoints :
          (ViewMouseMove(point) \/ ViewTouchMove(point)) =>
              \A c \in sent' :
                  InsideCanvas(StartGeometry(ctl[c.id].dragState)) =>
                      /\ WrittenFromSnapshot(c, point)
                      /\ (point = ViewDownPoint /\ ResizesFromMinSize(c)) => RestoresStart(c)]_vars

\* at scale 3.0 the pointer of a resize-se came back to the pointer-down
\* position and the block has the width and height of the snapshot again
C30_Witness ==
    /\ event.type \in {"mousemove", "touchmove"}
    /\ scaleFactor = MaxScale
    /\ \E c \in sent :
          /\ c.mode = "resize-se"
          /\ ctl[c.id].dragState.startBlockHeight > MinSize
          /\ RestoresStart(c)
          /\ BlockOf(c.id).width = ctl[c.id].dragState.startBlockWidth
          /\ BlockOf(c.id).height = ctl[c.id].dragState.startBlockHeight

=============================================================================
